---- MODULE Spec2Model ----
(***************************************************************************)
(* Verification model of the propulsion backend (propbackend):             *)
(*   - Board: mirrored state / desired_state and the arming-aware merges   *)
(*   - StateMachine and its State objects: transition legality             *)
(*   - SerialManager / UDPManager: send_id correlation, pending buffer,    *)
(*     cleanup queue                                                       *)
(* Nested JSON dictionaries are TLA+ functions whose DOMAIN is the set of  *)
(* keys present; a missing key is a missing domain element.                *)
(***************************************************************************)
EXTENDS Integers, Sequences, FiniteSets, TLC

VARIABLES
    board_config,     \* board name -> hw_type -> item -> config fields
    state,            \* board name -> hw_type -> item -> field -> value (Board.state)
    desired_state,    \* board name -> hw_type -> item -> field -> value (Board.desired_state)
    lastOp,           \* the last Board operation performed and its argument
    sequencejson,     \* configs/hotfiresequence.json
    now,              \* time.perf_counter(), in seconds
    sm_state,         \* class of StateMachine._state
    statechange_time, \* TimeKeeper.statechange_time of StateMachine.time_keeper
    cycle,            \* TimeKeeper.cycle of StateMachine.time_keeper
    next_wake,        \* instant at which the main loop's cycle_end sleep ends
    sm_last,          \* the last StateMachine step, the string it returned, the hooks it ran
    send_id,          \* SerialManager.send_id: the next correlation id
    read_buffer,      \* SerialManager.read_buffer: send_id -> received frame
    cleanup_queue,    \* SerialManager.cleanup_queue: list of (cleanup_time, send_id)
    cleanup_wake,     \* instant at which the cleanup task's sleep ends
    waiters,          \* the send_receive calls made so far, by reserved send_id
    command,          \* the scheduler's command dictionary passed to send_receive
    wire_out,         \* the frames written to the transport, in order
    applied,          \* the responses handed to Board.update_state, in order
    evicted,          \* the send_ids of the late frames the cleanup task has deleted
    hf_call,          \* the last HotfireController call: argument, returned object
    boards,           \* HardwareHandler.boards: the names of the loaded boards
    link,             \* board name -> its manager, scheduler and requests in flight
    unloads,          \* the number of HardwareHandler.unload_hardware calls made
    refusals,         \* the number of send_receive calls that returned at "if not self.writer"
    changing_state,   \* StateMachine.changing_state of proptestbackend.py
    entered_time,     \* the instant of the last StateMachine.set_state of proptestbackend.py
    lock,             \* buffer_lock, cleanup_lock, send_id_lock -> the task holding it
    task_pc,          \* task of one SerialManager -> the statement it is at
    running           \* the task the event loop is running

boardVars == <<board_config, state, desired_state, lastOp>>
smVars == <<sequencejson, now, sm_state, statechange_time, cycle, next_wake, sm_last>>
trVars == <<send_id, read_buffer, cleanup_queue, cleanup_wake, waiters, command, wire_out,
            applied, evicted>>
hfVars == <<hf_call>>
hwVars == <<boards, link, unloads, refusals>>
lgVars == <<changing_state, entered_time>>
lockVars == <<lock, task_pc, running>>
vars == <<boardVars, smVars, trVars, hfVars, hwVars, lgVars, lockVars>>

\* ------------------------------------------------------------------------
\* Dictionaries
\* ------------------------------------------------------------------------
EmptyDict == [x \in {} |-> 0]

Has(d, k) == k \in DOMAIN d

\* d[k] = v  (adds the key when missing)
Put(d, k, v) == [x \in DOMAIN d \cup {k} |-> IF x = k THEN v ELSE d[x]]

\* {**d, **e}, and also "for key, value in e.items(): d[key] = value"
Merge(d, e) == [x \in DOMAIN d \cup DOMAIN e |-> IF x \in DOMAIN e THEN e[x] ELSE d[x]]

\* ------------------------------------------------------------------------
\* Configuration (configs/hardware_config.json as read by config_reader)
\* ------------------------------------------------------------------------
HardwareTypes == {"pts", "servos", "solenoids", "pyros"}

ArmedTypes == {"servos", "solenoids", "pyros"}

state_defaults ==
    [hw \in HardwareTypes |->
        CASE hw = "servos"    -> [channel |-> 0, armed |-> FALSE, angle |-> 0, powered |-> FALSE]
          [] hw = "solenoids" -> [channel |-> 0, armed |-> FALSE, powered |-> FALSE]
          [] hw = "pyros"     -> [channel |-> 0, armed |-> FALSE, powered |-> FALSE]
          [] OTHER            -> [channel |-> 0, value |-> 0]]

SafeAngle == 10
DisarmAngle == 20

\* The servo entry of the actuator board, with or without safe_angle / disarm_angle
ServoConfigs ==
    { Merge(Merge([channel |-> 1],
                  IF sa THEN [safe_angle |-> SafeAngle] ELSE EmptyDict),
                  IF da THEN [disarm_angle |-> DisarmAngle] ELSE EmptyDict)
      : sa \in BOOLEAN, da \in BOOLEAN }

\* an actuator board carrying one servo
ServoBoardConfig(servo) ==
    [is_actuator |-> TRUE,
     servos      |-> [main |-> servo]]

\* an actuator board carrying a solenoid and a pyro channel
ValveBoardConfig ==
    [is_actuator |-> TRUE,
     solenoids   |-> [vent |-> [channel |-> 2]],
     pyros       |-> [ign |-> [channel |-> 4]]]

SensorBoardConfig ==
    [pts |-> [p1 |-> [channel |-> 3]]]

BoardNames == {"ActuatorBoard", "SensorBoard"}

ActuatorBoardConfigs == { ServoBoardConfig(servo) : servo \in ServoConfigs } \cup {ValveBoardConfig}

BoardConfigs ==
    { [b \in BoardNames |-> IF b = "ActuatorBoard" THEN act ELSE SensorBoardConfig]
      : act \in ActuatorBoardConfigs }

\* board_config.get('is_actuator', False)
is_actuator(cfg) == IF Has(cfg, "is_actuator") THEN cfg["is_actuator"] ELSE FALSE

\* ------------------------------------------------------------------------
\* Board.__init__
\* ------------------------------------------------------------------------
InitState(cfg) ==
    [hw \in HardwareTypes \cap DOMAIN cfg |->
        [it \in DOMAIN cfg[hw] |-> Merge(state_defaults[hw], cfg[hw][it])]]

InitServoDesired(servo_data) ==
    IF Has(servo_data, "safe_angle")
    THEN [channel |-> servo_data["channel"], armed |-> TRUE, angle |-> servo_data["safe_angle"]]
    ELSE [channel |-> servo_data["channel"], armed |-> FALSE]

InitDesiredState(cfg) ==
    IF is_actuator(cfg)
    THEN [hw \in DOMAIN InitState(cfg) |->
            IF hw = "servos"
            THEN [it \in DOMAIN cfg["servos"] |-> InitServoDesired(cfg["servos"][it])]
            ELSE InitState(cfg)[hw]]
    ELSE EmptyDict

\* the hw_types whose nested dictionary is one object in state and in
\* desired_state: "self.desired_state = self.state.copy()" copies the outer
\* dictionary only, and the servos entry is then replaced by a new one
SharedTypes_ShallowCopy(cfg) ==
    IF is_actuator(cfg) THEN (HardwareTypes \cap DOMAIN cfg) \ {"servos"} ELSE {}

\* "self.desired_state = copy.deepcopy(self.state)": nothing is shared
SharedTypes(cfg) == {}

\* dictionary other once dictionary written has been assigned to: a shared
\* hw_type shows what was written
SeenThrough(cfg, other, written) ==
    [hw \in DOMAIN other |->
        IF hw \in SharedTypes(cfg) /\ Has(written, hw) THEN written[hw] ELSE other[hw]]

\* ------------------------------------------------------------------------
\* Board.update_state
\* ------------------------------------------------------------------------
\* an update that also stores the items the board does not know
UpdatedState_AddsItems(st, new_state) ==
    [hw \in DOMAIN st |->
        IF hw \in HardwareTypes /\ Has(new_state, hw)
        THEN [it \in DOMAIN st[hw] \cup DOMAIN new_state[hw] |->
                IF Has(new_state[hw], it)
                THEN IF Has(st[hw], it) THEN Merge(st[hw][it], new_state[hw][it])
                                        ELSE new_state[hw][it]
                ELSE st[hw][it]]
        ELSE st[hw]]

\* the loops of update_state: for each configured hw_type that the frame and
\* the state both have, for each item of the frame that the state has, every
\* key of the item's data is assigned
UpdatedState(st, new_state) ==
    [hw \in DOMAIN st |->
        IF hw \in HardwareTypes /\ Has(new_state, hw)
        THEN [it \in DOMAIN st[hw] |->
                IF Has(new_state[hw], it) THEN Merge(st[hw][it], new_state[hw][it])
                                          ELSE st[hw][it]]
        ELSE st[hw]]

\* ------------------------------------------------------------------------
\* Board.update_desired_state
\* ------------------------------------------------------------------------
\* the item loop without the check of the actual armed flag
MergedDesiredItem_AlwaysCopy(cfg, hw, it, st_item, d_item, item_data) ==
    LET copied == Merge(d_item, item_data)
    IN  IF /\ Has(item_data, "armed")
           /\ hw = "servos"
           /\ item_data["armed"] = FALSE
           /\ Has(cfg["servos"][it], "disarm_angle")
        THEN Put(copied, "angle", 0)
        ELSE copied

\* one iteration of the item loop: the new desired_state[hw_type][item_name]
MergedDesiredItem(cfg, hw, it, st_item, d_item, item_data) ==
    LET copied ==
            IF Has(st_item, "armed")
            THEN IF st_item["armed"]
                 THEN Merge(d_item, item_data)
                 ELSE IF Has(d_item, "powered") THEN Put(d_item, "powered", FALSE)
                                                ELSE d_item
            ELSE d_item
        mirrored ==
            IF Has(item_data, "armed") THEN Put(copied, "armed", item_data["armed"])
                                       ELSE copied
    IN  IF /\ Has(item_data, "armed")
           /\ hw = "servos"
           /\ item_data["armed"] = FALSE
           /\ Has(cfg["servos"][it], "disarm_angle")
        THEN Put(mirrored, "angle", 0)
        ELSE mirrored

\* a merge that takes a commanded servo angle as a step from the present one
UpdatedDesiredState_AddsAngle(cfg, st, ds, new_desired_state) ==
    [hw \in DOMAIN ds |->
        IF hw \in HardwareTypes /\ Has(new_desired_state, hw)
        THEN [it \in DOMAIN ds[hw] |->
                IF Has(new_desired_state[hw], it) /\ Has(st[hw], it)
                THEN LET merged == MergedDesiredItem(cfg, hw, it, st[hw][it], ds[hw][it],
                                                     new_desired_state[hw][it])
                     IN  IF Has(ds[hw][it], "angle") /\ Has(merged, "angle")
                         THEN Put(merged, "angle", (ds[hw][it]["angle"] + merged["angle"]) % 180)
                         ELSE merged
                ELSE ds[hw][it]]
        ELSE ds[hw]]

UpdatedDesiredState(cfg, st, ds, new_desired_state) ==
    [hw \in DOMAIN ds |->
        IF hw \in HardwareTypes /\ Has(new_desired_state, hw)
        THEN [it \in DOMAIN ds[hw] |->
                IF Has(new_desired_state[hw], it) /\ Has(st[hw], it)
                THEN MergedDesiredItem(cfg, hw, it, st[hw][it], ds[hw][it],
                                       new_desired_state[hw][it])
                ELSE ds[hw][it]]
        ELSE ds[hw]]

\* ------------------------------------------------------------------------
\* Board.disarm_all
\* ------------------------------------------------------------------------
\* a sweep that stops after the servos
DisarmedAll_ServosOnly(cfg, ds) ==
    IF is_actuator(cfg)
    THEN [hw \in DOMAIN ds |->
            IF hw = "servos"
            THEN [it \in DOMAIN ds[hw] |-> Put(ds[hw][it], "armed", FALSE)]
            ELSE ds[hw]]
    ELSE ds

DisarmedAll(cfg, ds) ==
    IF is_actuator(cfg)
    THEN [hw \in DOMAIN ds |->
            IF hw \in ArmedTypes
            THEN [it \in DOMAIN ds[hw] |-> Put(ds[hw][it], "armed", FALSE)]
            ELSE ds[hw]]
    ELSE ds

\* ------------------------------------------------------------------------
\* Inputs of the Board operations
\* ------------------------------------------------------------------------
CommandAngle == 45

Opt(k, vals) == {EmptyDict} \cup { (k :> v) : v \in vals }

\* sparse item entries of an incoming desired-state payload
ItemDatas(hw) ==
    { Merge(Merge(a, p), g) :
        a \in Opt("armed", BOOLEAN),
        p \in Opt("powered", BOOLEAN),
        g \in IF hw = "servos" THEN Opt("angle", {CommandAngle}) ELSE {EmptyDict} }

\* payloads naming one item, known or unknown to the board, under a known or
\* unknown hw_type, and payloads naming the solenoid and the pyro together
DesiredPayloads ==
    { ("servos" :> ("main" :> d)) : d \in ItemDatas("servos") }
    \cup { ("solenoids" :> ("vent" :> d)) : d \in ItemDatas("solenoids") }
    \cup { ("solenoids" :> ("vent" :> d)) @@ ("pyros" :> ("ign" :> d)) : d \in ItemDatas("solenoids") }
    \cup { ("servos" :> ("ghost" :> [armed |-> TRUE, powered |-> TRUE])),
           ("lasers" :> ("main" :> [armed |-> TRUE, powered |-> TRUE])),
           ("pts" :> ("p1" :> [armed |-> TRUE, powered |-> TRUE])) }

\* telemetry frames a device may report
StateFrames ==
    { ("servos" :> ("main" :> Merge(a, g))) :
        a \in Opt("armed", BOOLEAN), g \in Opt("angle", {CommandAngle}) }
    \cup { ("solenoids" :> ("vent" :> a)) @@ ("pyros" :> ("ign" :> b)) :
        a \in Opt("armed", BOOLEAN), b \in Opt("armed", BOOLEAN) }
    \cup { ("pts" :> ("p1" :> [value |-> 7])),
           ("pts" :> ("ghost" :> [value |-> 7])),
           ("lasers" :> ("p1" :> [value |-> 7])) }

\* the inputs sent to a board: those naming only hw_types it is configured
\* with, and those naming a hw_type no configuration knows
InputsFor(cfg, inputs) ==
    { p \in inputs : \A hw \in DOMAIN p : Has(cfg, hw) \/ hw \notin HardwareTypes }

\* ------------------------------------------------------------------------
\* Board operations as actions
\* ------------------------------------------------------------------------
NoOp == [name |-> "init", board |-> "", arg |-> EmptyDict]

BoardInit ==
    /\ board_config \in BoardConfigs
    /\ state = [b \in BoardNames |-> InitState(board_config[b])]
    /\ desired_state = [b \in BoardNames |-> InitDesiredState(board_config[b])]
    /\ lastOp = NoOp

update_state(b, new_state) ==
    /\ state' = [state EXCEPT ![b] = UpdatedState(state[b], new_state)]
    /\ desired_state' = [desired_state EXCEPT ![b] =
            SeenThrough(board_config[b], desired_state[b], state'[b])]
    /\ lastOp' = [name |-> "update_state", board |-> b, arg |-> new_state]
    /\ UNCHANGED board_config
    /\ UNCHANGED <<smVars, trVars, hfVars, lgVars, lockVars, hwVars>>

update_desired_state(b, new_desired_state) ==
    /\ desired_state' = [desired_state EXCEPT ![b] =
            UpdatedDesiredState(board_config[b], state[b], desired_state[b], new_desired_state)]
    /\ state' = [state EXCEPT ![b] = SeenThrough(board_config[b], state[b], desired_state'[b])]
    /\ lastOp' = [name |-> "update_desired_state", board |-> b, arg |-> new_desired_state]
    /\ UNCHANGED board_config
    /\ UNCHANGED <<smVars, trVars, hfVars, lgVars, lockVars, hwVars>>

disarm_all ==
    /\ desired_state' = [b \in BoardNames |-> DisarmedAll(board_config[b], desired_state[b])]
    /\ state' = [b \in BoardNames |-> SeenThrough(board_config[b], state[b], desired_state'[b])]
    /\ lastOp' = [name |-> "disarm_all", board |-> "", arg |-> EmptyDict]
    /\ UNCHANGED board_config
    /\ UNCHANGED <<smVars, trVars, hfVars, lgVars, lockVars, hwVars>>

BoardNext ==
    \/ \E b \in BoardNames :
        \E f \in StateFrames : update_state(b, f)
    \/ \E b \in BoardNames :
        \E p \in InputsFor(board_config[b], DesiredPayloads) : update_desired_state(b, p)
    \/ disarm_all


\* ------------------------------------------------------------------------
\* HotfireController
\* ------------------------------------------------------------------------
\* the keys of "sequence" in lexicographic order, and float(timestr)
TimeStrs == <<"-1.0", "0.0", "1", "1.0", "2.0", "3.0">>

float(timestr) ==
    CASE timestr = "-1.0" -> -1
      [] timestr = "0.0"  -> 0
      [] timestr = "1"    -> 1
      [] timestr = "1.0"  -> 1
      [] timestr = "2.0"  -> 2
      [] timestr = "3.0"  -> 3

LexRank(timestr) == CHOOSE i \in DOMAIN TimeStrs : TimeStrs[i] = timestr

\* (time, timestr) tuple order used by sorted(zip(times, timestrs))
KeyBefore(a, b) ==
    \/ float(a) < float(b)
    \/ float(a) = float(b) /\ LexRank(a) < LexRank(b)

RECURSIVE SortedKeys(_)
SortedKeys(keys) ==
    IF keys = {} THEN <<>>
    ELSE LET first == CHOOSE k \in keys : \A o \in keys \ {k} : KeyBefore(k, o)
         IN  <<first>> \o SortedKeys(keys \ {first})

sorted_timestr(seqjson) == SortedKeys(DOMAIN seqjson["sequence"])

sorted_times(seqjson) ==
    [i \in DOMAIN sorted_timestr(seqjson) |-> float(sorted_timestr(seqjson)[i])]

hotfire_end_time(seqjson) ==
    sorted_times(seqjson)[Len(sorted_times(seqjson))] + seqjson["hotfire_safing_time"]

get_T(seqjson, time_since_statechange) ==
    time_since_statechange - seqjson["time_before_ignition"]

\* a completion test that is already true at the end time
is_hotfire_complete_AtEnd(seqjson, time_since_statechange) ==
    get_T(seqjson, time_since_statechange) >= hotfire_end_time(seqjson)

is_hotfire_complete(seqjson, time_since_statechange) ==
    get_T(seqjson, time_since_statechange) > hotfire_end_time(seqjson)

\* an abort lookup that names no board
get_abort_desiredstate_Nothing(seqjson) == EmptyDict

get_abort_desiredstate(seqjson) == seqjson["start_end_desiredstate"]

\* the while loop: time_index after "while T > sorted_times[time_index+1]";
\* 0 stands for the IndexError raised when time_index+1 leaves the list
RECURSIVE TimeIndexFrom(_, _, _)
TimeIndexFrom(times, T, time_index) ==
    IF time_index + 1 > Len(times) THEN 0
    ELSE IF T > times[time_index + 1] THEN TimeIndexFrom(times, T, time_index + 1)
    ELSE time_index

\* sequence positions are 1-based here: position i is Python index i-1
TimeIndex(seqjson, T) == TimeIndexFrom(sorted_times(seqjson), T, 1)

\* the servo entry after the ramping logic
RampedServo(seqjson, T, time_index, board_name, servo_name, servo_data) ==
    IF Has(servo_data, "ramp_to_next") /\ servo_data["ramp_to_next"] = TRUE
    THEN LET next_desired_state == seqjson["sequence"][sorted_timestr(seqjson)[time_index + 1]]
             current_angle      == servo_data["angle"]
             next_desired_angle == next_desired_state[board_name]["servos"][servo_name]["angle"]
             last_time          == sorted_times(seqjson)[time_index]
             next_time          == sorted_times(seqjson)[time_index + 1]
             weighted_angle     == (current_angle * (next_time - T) + next_desired_angle * (T - last_time))
                                       \div (next_time - last_time)
         IN  [k \in (DOMAIN servo_data \cup {"angle"}) \ {"ramp_to_next"} |->
                 IF k = "angle" THEN weighted_angle ELSE servo_data[k]]
    ELSE servo_data

\* a lookup without the test against sorted_times[-1]: past the first
\* keyframe the last keyframe is held
get_hotfire_desiredstate_HoldLast(seqjson, time_since_statechange) ==
    LET T     == get_T(seqjson, time_since_statechange)
        times == sorted_times(seqjson)
    IN  IF T < times[1]
        THEN seqjson["start_end_desiredstate"]
        ELSE seqjson["sequence"][sorted_timestr(seqjson)[Len(times)]]

get_hotfire_desiredstate(seqjson, time_since_statechange) ==
    LET T     == get_T(seqjson, time_since_statechange)
        times == sorted_times(seqjson)
    IN  IF T < times[1] \/ T > times[Len(times)]
        THEN seqjson["start_end_desiredstate"]
        ELSE LET time_index    == TimeIndex(seqjson, T)
                 desired_state_ == seqjson["sequence"][sorted_timestr(seqjson)[time_index]]
             IN  [board_name \in DOMAIN desired_state_ |->
                    [hw_type \in DOMAIN desired_state_[board_name] |->
                        IF hw_type = "servos"
                        THEN [servo_name \in DOMAIN desired_state_[board_name][hw_type] |->
                                RampedServo(seqjson, T, time_index, board_name, servo_name,
                                            desired_state_[board_name][hw_type][servo_name])]
                        ELSE desired_state_[board_name][hw_type]]]

\* the base keyframe of the ramping logic has a servo with a truthy
\* ramp_to_next and no keyframe after it: "self.sorted_timestr[time_index+1]"
\* raises the IndexError that the try block catches and logs as critical
RampsOffTheEnd(seqjson, time_index) ==
    LET desired_state_ == seqjson["sequence"][sorted_timestr(seqjson)[time_index]]
    IN  /\ time_index + 1 > Len(sorted_times(seqjson))
        /\ \E board_name \in DOMAIN desired_state_ :
              /\ Has(desired_state_[board_name], "servos")
              /\ \E servo_name \in DOMAIN desired_state_[board_name]["servos"] :
                    LET servo_data == desired_state_[board_name]["servos"][servo_name]
                    IN  Has(servo_data, "ramp_to_next") /\ servo_data["ramp_to_next"] = TRUE

\* a call of get_hotfire_desiredstate: the exception that leaves it, whether
\* the critical error is logged, the value returned. "while T >
\* self.sorted_times[time_index+1]" stands outside the try block, so its
\* IndexError leaves the call
get_hotfire_desiredstate_outcome(seqjson, time_since_statechange) ==
    LET T     == get_T(seqjson, time_since_statechange)
        times == sorted_times(seqjson)
    IN  IF T < times[1] \/ T > times[Len(times)]
        THEN [raises |-> "none", critical |-> FALSE, value |-> seqjson["start_end_desiredstate"]]
        ELSE IF TimeIndex(seqjson, T) = 0
             THEN [raises |-> "IndexError", critical |-> FALSE, value |-> EmptyDict]
             ELSE [raises |-> "none", critical |-> RampsOffTheEnd(seqjson, TimeIndex(seqjson, T)),
                   value |-> get_hotfire_desiredstate(seqjson, time_since_statechange)]

\* timelines on disk: a ramp from 0 to 90 degrees over two seconds
SafingSnapshot ==
    [ActuatorBoard |->
        [servos    |-> [main |-> [armed |-> TRUE, angle |-> 0]],
         solenoids |-> [vent |-> [armed |-> TRUE, powered |-> FALSE]]]]

Keyframe(angle, ramp, vent) ==
    [ActuatorBoard |->
        [servos    |-> [main |-> Merge([armed |-> TRUE, angle |-> angle],
                                       IF ramp THEN [ramp_to_next |-> TRUE] ELSE EmptyDict)],
         solenoids |-> [vent |-> [armed |-> TRUE, powered |-> vent]]]]

Timelines ==
    { [time_before_ignition   |-> 1,
       hotfire_safing_time    |-> safing,
       start_end_desiredstate |-> SafingSnapshot,
       sequence               |-> ("0.0" :> Keyframe(0, TRUE, TRUE)) @@ ("2.0" :> Keyframe(90, FALSE, FALSE))]
      : safing \in {0, 1} }

\* timelines of two or three keyframes: angles are multiples of every interval
\* between two keyframes, so that the quotient of the ramp is exact
KeyTimes == {"0.0", "1.0", "2.0", "3.0"}

KeyAngles == {0, 30, 90}

Keyframes ==
    { [ActuatorBoard |->
        [servos    |-> [main |-> Merge([armed |-> TRUE, angle |-> angle], ramp)],
         solenoids |-> [vent |-> [armed |-> TRUE, powered |-> (angle # 0)]]]]
      : angle \in KeyAngles, ramp \in Opt("ramp_to_next", BOOLEAN) }

HotfireTimelines ==
    { [time_before_ignition   |-> 1,
       hotfire_safing_time    |-> 1,
       start_end_desiredstate |-> SafingSnapshot,
       sequence               |-> sequence]
      : sequence \in UNION { [keys -> Keyframes] :
                                keys \in { k \in SUBSET KeyTimes : Cardinality(k) \in {2, 3} } } }

\* ------------------------------------------------------------------------
\* Calls of the HotfireController
\* ------------------------------------------------------------------------
MaxCallTime == 5

\* "new_desired_state = self.start_end_desiredstate": the object returned is
\* the stored snapshot itself; inside the sequence it is the deepcopy
returns_stored_object(seqjson, time_since_statechange) ==
    LET T     == get_T(seqjson, time_since_statechange)
        times == sorted_times(seqjson)
    IN  T < times[1] \/ T > times[Len(times)]

NoCall == [op |-> "none", t |-> 0, value |-> EmptyDict, stored |-> FALSE]

HFInit == hf_call = NoCall

\* the tasks of a SerialManager and the asyncio.Lock objects it creates
LockNames == {"buffer_lock", "cleanup_lock", "send_id_lock"}

Callers == {"send_receive_1", "send_receive_2", "send_receive_3"}

LockTasks == {"_read_loop", "_readbuffer_cleanloop"} \cup Callers

\* SerialManager.initialize has created the reader, which awaits a line, and
\* the cleanup task, which sleeps; no send_receive has been called; every
\* lock is free
LockRest ==
    /\ lock = [l \in LockNames |-> "free"]
    /\ task_pc = [t \in LockTasks |->
                    CASE t = "_read_loop" -> "readline"
                      [] t = "_readbuffer_cleanloop" -> "sleep"
                      [] OTHER -> "idle"]
    /\ running = "none"

\* the specifications of the propbackend package leave the state machine of
\* proptestbackend.py alone
LGRest ==
    /\ changing_state = FALSE
    /\ entered_time = 0

call_get_hotfire_desiredstate(time_since_statechange) ==
    /\ hf_call' = [op     |-> "get_hotfire_desiredstate",
                   t      |-> time_since_statechange,
                   value  |-> get_hotfire_desiredstate(sequencejson, time_since_statechange),
                   stored |-> returns_stored_object(sequencejson, time_since_statechange)]
    /\ UNCHANGED <<boardVars, smVars, trVars, hwVars, lgVars, lockVars>>

call_get_abort_desiredstate ==
    /\ hf_call' = [op     |-> "get_abort_desiredstate",
                   t      |-> 0,
                   value  |-> get_abort_desiredstate(sequencejson),
                   stored |-> TRUE]
    /\ UNCHANGED <<boardVars, smVars, trVars, hwVars, lgVars, lockVars>>

\* the caller assigns returned["ActuatorBoard"]["servos"]["main"]["angle"]:
\* an assignment through a reference to the stored snapshot changes the
\* snapshot, which is the same object
caller_writes_result ==
    /\ hf_call.op \in {"get_hotfire_desiredstate", "get_abort_desiredstate"}
    /\ LET written == [hf_call.value EXCEPT !["ActuatorBoard"]["servos"]["main"]["angle"] = CommandAngle]
       IN  /\ hf_call' = [hf_call EXCEPT !.op = "written", !.value = written]
           /\ sequencejson' = IF hf_call.stored
                              THEN [sequencejson EXCEPT !["start_end_desiredstate"] = written]
                              ELSE sequencejson
    /\ UNCHANGED <<boardVars, now, sm_state, statechange_time, cycle, next_wake, sm_last, trVars, hwVars,
                   lgVars, lockVars>>

HotfireNext ==
    \/ \E time_since_statechange \in 0..MaxCallTime :
        call_get_hotfire_desiredstate(time_since_statechange)
    \/ call_get_abort_desiredstate
    \/ caller_writes_result


\* ------------------------------------------------------------------------
\* State objects: can_transition_to
\* ------------------------------------------------------------------------
StateClasses ==
    {"StartupState", "IdleState", "HotfireState", "EngineAbortState",
     "FTSState", "LaunchState", "HoverState"}

Valid == <<TRUE, <<"Valid transition">>>>
Invalid == <<FALSE, <<"Invalid transition">>>>

AbortCooldown == 2
StartupDelay == 2

StartupState_can_transition_to(target_state) ==
    IF target_state \in {"IdleState", "EngineAbortState", "FTSState"} THEN Valid ELSE Invalid

\* the Idle row without LaunchState
IdleState_can_transition_to_NoLaunch(target_state) ==
    IF target_state \in {"HotfireState", "EngineAbortState", "FTSState"}
    THEN Valid ELSE Invalid

IdleState_can_transition_to(target_state) ==
    IF target_state \in {"HotfireState", "LaunchState", "EngineAbortState", "FTSState"}
    THEN Valid ELSE Invalid

\* the Hotfire row without the completion test
HotfireState_can_transition_to_NoGate(target_state, seqjson, time_since_statechange) ==
    IF target_state \in {"EngineAbortState", "IdleState"} THEN Valid ELSE Invalid

HotfireState_can_transition_to(target_state, seqjson, time_since_statechange) ==
    IF target_state \in {"EngineAbortState"} THEN Valid
    ELSE IF target_state = "IdleState"
         THEN IF is_hotfire_complete(seqjson, time_since_statechange)
              THEN Valid
              ELSE <<FALSE, <<"Hotfire not complete">>>>
         ELSE Invalid

EngineAbortState_can_transition_to(target_state, time_since_statechange) ==
    IF target_state \in {"FTSState"} THEN Valid
    ELSE IF target_state = "IdleState"
         THEN IF time_since_statechange > AbortCooldown
              THEN Valid
              ELSE <<FALSE, <<"Cannot return to IDLE, only", time_since_statechange, "seconds passed">>>>
         ELSE Invalid

FTSState_can_transition_to(target_state) ==
    IF target_state \in {"IdleState"} THEN Valid ELSE Invalid

LaunchState_can_transition_to(target_state) ==
    IF target_state \in {"HoverState", "EngineAbortState", "FTSState"} THEN Valid ELSE Invalid

HoverState_can_transition_to(target_state) ==
    IF target_state \in {"IdleState", "EngineAbortState", "FTSState"} THEN Valid ELSE Invalid

\* self._state.can_transition_to(state), dispatched on the class of self._state
can_transition_to(current, target_state, seqjson, time_since_statechange) ==
    CASE current = "StartupState"     -> StartupState_can_transition_to(target_state)
      [] current = "IdleState"        -> IdleState_can_transition_to(target_state)
      [] current = "HotfireState"     -> HotfireState_can_transition_to(target_state, seqjson, time_since_statechange)
      [] current = "EngineAbortState" -> EngineAbortState_can_transition_to(target_state, time_since_statechange)
      [] current = "FTSState"         -> FTSState_can_transition_to(target_state)
      [] current = "LaunchState"      -> LaunchState_can_transition_to(target_state)
      [] current = "HoverState"       -> HoverState_can_transition_to(target_state)

\* ------------------------------------------------------------------------
\* StateMachine
\* ------------------------------------------------------------------------
\* period of StateMachine.time_keeper in ticks of the model clock: the
\* source's 0.001 s is below the clock's resolution of one second
cycle_time == 1

MaxTime == 6

Max(a, b) == IF a >= b THEN a ELSE b

\* transition_to resetting the TimeKeeper before the legality check
TransitionResult_EarlyStatechange(current, target_state, seqjson, t, sc_time, cyc) ==
    LET verdict == can_transition_to(current, target_state, seqjson, t - sc_time)
    IN  IF ~verdict[1]
        THEN [state |-> current, statechange_time |-> t, cycle |-> 0,
              reply |-> <<"Attempted transition failed", current, target_state, verdict[2]>>,
              hooks |-> <<>>]
        ELSE [state |-> target_state, statechange_time |-> t, cycle |-> 0,
              reply |-> <<"Transitioned to", target_state>>,
              hooks |-> << <<"teardown", current>>, <<"install", target_state>>,
                           <<"setup", target_state>>, <<"statechange">> >>]

\* StateMachine.transition_to(state) called at time t: the machine afterwards,
\* the returned string and the hooks run, in order
TransitionResult(current, target_state, seqjson, t, sc_time, cyc) ==
    LET verdict == can_transition_to(current, target_state, seqjson, t - sc_time)
    IN  IF ~verdict[1]
        THEN [state |-> current, statechange_time |-> sc_time, cycle |-> cyc,
              reply |-> <<"Attempted transition failed", current, target_state, verdict[2]>>,
              hooks |-> <<>>]
        ELSE [state |-> target_state, statechange_time |-> t, cycle |-> 0,
              reply |-> <<"Transitioned to", target_state>>,
              hooks |-> << <<"teardown", current>>, <<"install", target_state>>,
                           <<"setup", target_state>>, <<"statechange">> >>]

SMInit ==
    /\ sequencejson \in Timelines
    /\ now = 0
    /\ sm_state = "StartupState"
    /\ statechange_time = 0
    /\ cycle = 0
    /\ next_wake = 0
    /\ sm_last = [op |-> "init", target |-> "StartupState",
                  reply |-> <<"Transitioned to", "StartupState">>,
                  hooks |-> << <<"install", "StartupState">>, <<"setup", "StartupState">>,
                               <<"statechange">> >>]

\* time passes
Tick ==
    /\ now < MaxTime
    /\ now' = now + 1
    /\ sm_last' = [op |-> "tick", target |-> "", reply |-> <<>>, hooks |-> <<>>]
    /\ UNCHANGED <<sequencejson, sm_state, statechange_time, cycle, next_wake, boardVars, trVars, hfVars, lgVars, lockVars, hwVars>>

\* a caller requests StateMachine.transition_to(target_state())
transition_to(target_state) ==
    LET r == TransitionResult(sm_state, target_state, sequencejson, now, statechange_time, cycle)
    IN  /\ sm_state' = r.state
        /\ statechange_time' = r.statechange_time
        /\ cycle' = r.cycle
        /\ sm_last' = [op |-> "transition_to", target |-> target_state,
                       reply |-> r.reply, hooks |-> r.hooks]
        /\ UNCHANGED <<sequencejson, now, next_wake, boardVars, trVars, hfVars, lgVars, lockVars, hwVars>>

\* "for board_name, desired_state in board_desired_state.items(): ..."
PushedDesiredStates(board_desired_state) ==
    [b \in BoardNames |->
        IF Has(board_desired_state, b)
        THEN UpdatedDesiredState(board_config[b], state[b], desired_state[b], board_desired_state[b])
        ELSE desired_state[b]]

PushedLastOp(board_desired_state) ==
    IF DOMAIN board_desired_state \cap BoardNames = {} THEN lastOp
    ELSE LET b == CHOOSE n \in DOMAIN board_desired_state \cap BoardNames : TRUE
         IN  [name |-> "update_desired_state", board |-> b, arg |-> board_desired_state[b]]

NoTransition ==
    [state |-> sm_state, statechange_time |-> statechange_time, cycle |-> cycle,
     reply |-> <<>>, hooks |-> <<>>]

\* StateMachine.main_loop: cycle_start, the loop hook of the current state, cycle_end
main_loop ==
    /\ now >= next_wake
    /\ LET time_since_statechange == now - statechange_time
           to_idle == TransitionResult(sm_state, "IdleState", sequencejson, now, statechange_time, cycle)
           pushed ==
               CASE sm_state = "HotfireState" ->
                        get_hotfire_desiredstate(sequencejson, time_since_statechange)
                 [] sm_state = "EngineAbortState" -> get_abort_desiredstate(sequencejson)
                 [] OTHER -> EmptyDict
           r ==
               CASE sm_state = "StartupState" ->
                        IF time_since_statechange > StartupDelay THEN to_idle ELSE NoTransition
                 [] sm_state = "HotfireState" ->
                        IF is_hotfire_complete(sequencejson, time_since_statechange)
                        THEN to_idle ELSE NoTransition
                 [] OTHER -> NoTransition
       IN  /\ desired_state' = PushedDesiredStates(pushed)
           /\ lastOp' = PushedLastOp(pushed)
           /\ sm_state' = r.state
           /\ statechange_time' = r.statechange_time
           /\ cycle' = r.cycle + 1
           /\ next_wake' = Max(now, r.statechange_time + (r.cycle + 2) * cycle_time)
           /\ sm_last' = [op |-> "main_loop", target |-> "", reply |-> r.reply, hooks |-> r.hooks]
    /\ UNCHANGED <<sequencejson, now, board_config, state, trVars, hfVars, lgVars, lockVars, hwVars>>

SMNext ==
    \/ Tick
    \/ \E target_state \in StateClasses : transition_to(target_state)
    \/ main_loop


\* ------------------------------------------------------------------------
\* SerialCommandScheduler.create_command
\* ------------------------------------------------------------------------
create_command(cfg, st, ds) ==
    IF ~is_actuator(cfg)
    THEN ("timestamp" :> 0) @@
         [hw \in HardwareTypes \cap DOMAIN st |->
            [it \in DOMAIN st[hw] |->
                IF Has(st[hw][it], "value")
                THEN [channel |-> st[hw][it]["channel"], value |-> st[hw][it]["value"]]
                ELSE [channel |-> st[hw][it]["channel"]]]]
    ELSE ("timestamp" :> 0) @@ ds

\* ------------------------------------------------------------------------
\* SerialManager / UDPManager of one board
\* ------------------------------------------------------------------------
\* A task runs without interruption between two awaits that suspend it.
\* No holder of buffer_lock, cleanup_lock or send_id_lock awaits anything but
\* another of these locks while holding it, so every acquisition finds the
\* lock free and does not suspend: each action below is the code between
\* two suspending awaits (readline, drain, sleep).
ManagedBoard == "SensorBoard"

timeout_time == 1
cleanup_delay == 1

MaxSend == 2
MaxQueue == 2
MaxWireTime == 3

\* telemetry carried by a response frame
ResponseBody == ("pts" :> ("p1" :> [value |-> 7]))

\* what the reader may find on the line
NotJson == [kind |-> "garbage"]
JsonFrame(json) == [kind |-> "json", json |-> json]

Lines ==
    {NotJson, JsonFrame(ResponseBody)}
    \cup { JsonFrame(("send_id" :> k) @@ ResponseBody) : k \in 0..MaxSend }

\* list.sort() on (cleanup_time, send_id) tuples: by cleanup_time, then by
\* send_id; equal tuples keep their order
EntryBefore(a, b) == a[1] < b[1] \/ (a[1] = b[1] /\ a[2] < b[2])

\* the place of entry i of q in the sorted list
SortRank(q, i) ==
    1 + Cardinality({ j \in DOMAIN q : EntryBefore(q[j], q[i]) \/ (q[j] = q[i] /\ j < i) })

SortQueue(q) ==
    [r \in 1..Len(q) |-> q[CHOOSE i \in DOMAIN q : SortRank(q, i) = r]]

\* "while self.cleanup_queue and self.cleanup_queue[0][0] < now: pop(0)":
\* the number of entries the loop pops
PoppedCount(q, t) ==
    Cardinality({ k \in DOMAIN q : \A i \in 1..k : q[i][1] < t })

\* the send_ids of the popped entries
Expired(q, t) == { q[i][2] : i \in 1..PoppedCount(q, t) }

\* the queue the loop leaves
Unexpired(q, t) == SubSeq(q, PoppedCount(q, t) + 1, Len(q))

Without(d, keys) == [k \in DOMAIN d \ keys |-> d[k]]

\* a waiter that leaves the claimed entry in the buffer
ClaimedBuffer_NoDelete(buffer, id) == buffer

\* "del self.read_buffer[send_id]"
ClaimedBuffer(buffer, id) == Without(buffer, {id})

\* a cleanup pass that pops the expired entries and deletes nothing
EvictedBuffer_NoDelete(buffer, sorted, t) == buffer

\* "if cleanup_id in self.read_buffer: del self.read_buffer[cleanup_id]" for
\* every popped entry
EvictedBuffer(buffer, sorted, t) == Without(buffer, Expired(sorted, t))

TRInit ==
    /\ send_id = 0
    /\ read_buffer = EmptyDict
    /\ cleanup_queue = <<>>
    /\ cleanup_wake = 0
    /\ waiters = EmptyDict
    /\ command = create_command(board_config[ManagedBoard], state[ManagedBoard],
                                desired_state[ManagedBoard])
    /\ wire_out = <<>>
    /\ applied = <<>>
    /\ evicted = {}

WireTick ==
    /\ now < MaxWireTime
    /\ now' = now + 1
    /\ evicted' = evicted
    /\ UNCHANGED <<send_id, read_buffer, cleanup_queue, cleanup_wake, waiters, command,
                   wire_out, applied>>
    /\ UNCHANGED <<boardVars, sequencejson, sm_state, statechange_time, cycle, next_wake, sm_last, hfVars, lgVars, lockVars, hwVars>>

\* send_receive losing the increment of the counter
send_receive_write_NoIncrement ==
    /\ Len(wire_out) < MaxSend
    /\ send_id' = send_id
    /\ command' = Put(command, "send_id", send_id)
    /\ wire_out' = Append(wire_out, command')
    /\ waiters' = (send_id :> [pc |-> "drain"]) @@ waiters
    /\ evicted' = evicted
    /\ UNCHANGED <<read_buffer, cleanup_queue, cleanup_wake, applied, now>>
    /\ UNCHANGED <<boardVars, sequencejson, sm_state, statechange_time, cycle, next_wake, sm_last, hfVars, lgVars, lockVars, hwVars>>

\* send_receive up to "await self.writer.drain()": reserve the id, attach it
\* to the shared command dictionary, serialize and write
send_receive_write ==
    /\ send_id < MaxSend
    /\ send_id' = send_id + 1
    /\ command' = Put(command, "send_id", send_id)
    /\ wire_out' = Append(wire_out, command')
    /\ waiters' = (send_id :> [pc |-> "drain"]) @@ waiters
    /\ evicted' = evicted
    /\ UNCHANGED <<read_buffer, cleanup_queue, cleanup_wake, applied, now>>
    /\ UNCHANGED <<boardVars, sequencejson, sm_state, statechange_time, cycle, next_wake, sm_last, hfVars, lgVars, lockVars, hwVars>>

\* drain returns: "start_time = time.perf_counter()"
send_receive_drained(id) ==
    /\ Has(waiters, id)
    /\ waiters[id].pc = "drain"
    /\ waiters' = [waiters EXCEPT ![id] = [pc |-> "poll", start_time |-> now]]
    /\ evicted' = evicted
    /\ UNCHANGED <<send_id, read_buffer, cleanup_queue, cleanup_wake, command, wire_out,
                   applied, now>>
    /\ UNCHANGED <<boardVars, sequencejson, sm_state, statechange_time, cycle, next_wake, sm_last, hfVars, lgVars, lockVars, hwVars>>

\* one evaluation of the polling loop's condition and body, and of the
\* timeout check after the loop when the loop ends
send_receive_poll(id) ==
    /\ Has(waiters, id)
    /\ waiters[id].pc = "poll"
    /\ IF now - waiters[id].start_time < timeout_time
       THEN IF Has(read_buffer, id)
            THEN /\ read_buffer' = ClaimedBuffer(read_buffer, id)
                 /\ state' = [state EXCEPT ![ManagedBoard] =
                                 UpdatedState(state[ManagedBoard], read_buffer[id].json)]
                 /\ lastOp' = [name |-> "update_state", board |-> ManagedBoard,
                               arg |-> read_buffer[id].json]
                 /\ applied' = Append(applied, [waiter |-> id, frame |-> read_buffer[id].json])
                 /\ waiters' = [waiters EXCEPT ![id] = [pc |-> "claimed"]]
            ELSE UNCHANGED <<read_buffer, state, lastOp, applied, waiters>>
       ELSE /\ waiters' = [waiters EXCEPT ![id] =
                              [pc |-> IF now - waiters[id].start_time > timeout_time
                                      THEN "timeout_logged" ELSE "timeout"]]
            /\ UNCHANGED <<read_buffer, state, lastOp, applied>>
    /\ UNCHANGED <<send_id, cleanup_queue, cleanup_wake, command, wire_out, now, evicted>>
    /\ UNCHANGED <<board_config, desired_state, sequencejson, sm_state, statechange_time,
                   cycle, next_wake, sm_last, hfVars, lgVars, lockVars, hwVars>>

\* the send_receive call that reserved id is past its timeout: it has returned
\* without a response, or its polling loop will end at its next test
PastTimeout(id) ==
    /\ Has(waiters, id)
    /\ \/ waiters[id].pc \in {"timeout", "timeout_logged"}
       \/ waiters[id].pc = "poll" /\ now - waiters[id].start_time >= timeout_time

\* _read_loop / _process_datagram: one line or datagram is read and handled;
\* "late" notes beside the buffered frame whether it came after the timeout of
\* its waiter
read_line(line) ==
    /\ now + cleanup_delay < MaxWireTime
    /\ IF line.kind = "json" /\ Has(line.json, "send_id")
       THEN /\ Len(cleanup_queue) < MaxQueue
            /\ read_buffer' = Put(read_buffer, line.json["send_id"],
                                  [json |-> line.json, late |-> PastTimeout(line.json["send_id"])])
            /\ cleanup_queue' = Append(cleanup_queue, <<now + cleanup_delay, line.json["send_id"]>>)
       ELSE UNCHANGED <<read_buffer, cleanup_queue>>
    /\ evicted' = evicted
    /\ UNCHANGED <<send_id, cleanup_wake, waiters, command, wire_out, applied, now>>
    /\ UNCHANGED <<boardVars, sequencejson, sm_state, statechange_time, cycle, next_wake, sm_last, hfVars, lgVars, lockVars, hwVars>>

\* one iteration of _readbuffer_cleanloop
readbuffer_clean ==
    /\ now >= cleanup_wake
    /\ \E sorted \in {SortQueue(cleanup_queue)} :
       \E remaining \in {Unexpired(sorted, now)} :
           /\ cleanup_queue' = remaining
           /\ read_buffer' = EvictedBuffer(read_buffer, sorted, now)
           /\ cleanup_wake' = IF remaining # <<>> THEN Max(now, remaining[1][1]) ELSE now
           /\ evicted' = evicted \cup { k \in Expired(sorted, now) \cap DOMAIN read_buffer :
                                           read_buffer[k].late }
    /\ UNCHANGED <<send_id, waiters, command, wire_out, applied, now>>
    /\ UNCHANGED <<boardVars, sequencejson, sm_state, statechange_time, cycle, next_wake, sm_last, hfVars, lgVars, lockVars, hwVars>>

TRNext ==
    \/ WireTick
    \/ send_receive_write
    \/ \E id \in DOMAIN waiters : send_receive_drained(id)
    \/ \E id \in DOMAIN waiters : send_receive_poll(id)
    \/ \E line \in Lines : read_line(line)
    \/ readbuffer_clean

\* ------------------------------------------------------------------------
\* HardwareHandler, Board.initialise_serial / initialise_udp, Board.shutdown,
\* SerialCommandScheduler / UDPCommandScheduler
\* ------------------------------------------------------------------------
\* the transport key of a board's configuration
Kinds == {"serial", "udp"}

\* board_config["polling_interval"], in seconds
PollingIntervals == {1}

MaxHwTime == 4
MaxUnloads == 2

\* a Board as constructed: "self.serialmanager = cast(SerialManager, None)",
\* the initialise task created and not yet run; "dark" tells whether the
\* device at the other end never answers
Constructed(kind, dark, polling_interval) ==
    [kind |-> kind, dark |-> dark, polling_interval |-> polling_interval,
     manager |-> "None", running |-> FALSE, tasks |-> "none",
     epoch |-> 0, cycle |-> 0, wake |-> 0,
     pending |-> {}, sent |-> 0]

\* the hardware of the specifications that leave it alone
HWRest ==
    /\ boards = BoardNames
    /\ link = [b \in BoardNames |-> Constructed("serial", FALSE, 1)]
    /\ unloads = 0
    /\ refusals = 0

\* HardwareHandler.load_hardware has appended a Board for every configured name
HWInit ==
    /\ boards = BoardNames
    /\ \E kind \in [BoardNames -> Kinds] : \E dark \in [BoardNames -> BOOLEAN] :
       \E interval \in PollingIntervals :
           link = [b \in BoardNames |-> Constructed(kind[b], dark[b], interval)]
    /\ unloads = 0
    /\ refusals = 0

\* Board.initialise_serial / initialise_udp: the manager opens the transport
\* and starts its tasks, the scheduler is constructed with running = True and
\* a TimeKeeper started now, and its start_sending task is created
initialise(b) ==
    /\ link[b].manager = "None"
    /\ link' = [link EXCEPT ![b] = [@ EXCEPT !.manager = "open", !.tasks = "running",
                                              !.running = TRUE, !.epoch = now, !.cycle = 0,
                                              !.wake = now]]
    /\ UNCHANGED <<boards, unloads, refusals, boardVars, smVars, trVars, hfVars, lgVars, lockVars>>

\* a start_sending loop that awaits the response before the next dispatch
SchedulerDue_AwaitsResponse(l, t) ==
    l.running /\ l.manager # "None" /\ t >= l.wake /\ l.pending = {}

\* "while self.running:" is reached with the cycle_end sleep over
SchedulerDue(l, t) ==
    l.running /\ l.manager # "None" /\ t >= l.wake

\* one iteration of start_sending: cycle_start, create_task(send_receive(command)),
\* cycle_end; the created send_receive writes its frame when the transport is
\* open and then polls for the response
start_sending(b) ==
    /\ SchedulerDue(link[b], now)
    /\ LET l == link[b]
           next_time == l.epoch + (l.cycle + 2) * l.polling_interval
       IN  link' = [link EXCEPT ![b] =
                      [l EXCEPT !.sent = IF l.manager = "open" THEN l.sent + 1 ELSE l.sent,
                                !.pending = IF l.manager = "open" THEN l.pending \cup {now}
                                            ELSE l.pending,
                                !.cycle = l.cycle + 1,
                                !.wake = Max(now, next_time)]]
    /\ UNCHANGED <<boards, unloads, refusals, boardVars, smVars, trVars, hfVars, lgVars, lockVars>>

\* the polling loop of the send_receive started at start_time finds the
\* response, which the manager's reader has put in the buffer:
\* board.update_state(response_json)
send_receive_answered(b, start_time) ==
    /\ ~link[b].dark
    /\ link[b].manager = "open"
    /\ start_time \in link[b].pending
    /\ now - start_time < timeout_time
    /\ link' = [link EXCEPT ![b] = [@ EXCEPT !.pending = @ \ {start_time}]]
    /\ state' = [state EXCEPT ![b] = UpdatedState(state[b], ResponseBody)]
    /\ lastOp' = [name |-> "update_state", board |-> b, arg |-> ResponseBody]
    /\ UNCHANGED <<boards, unloads, refusals, board_config, desired_state, smVars, trVars, hfVars, lgVars, lockVars>>

\* the polling loop of the send_receive started at start_time ends without
\* a response
send_receive_timeout(b, start_time) ==
    /\ start_time \in link[b].pending
    /\ ~(now - start_time < timeout_time)
    /\ link' = [link EXCEPT ![b] = [@ EXCEPT !.pending = @ \ {start_time}]]
    /\ UNCHANGED <<boards, unloads, refusals, boardVars, smVars, trVars, hfVars, lgVars, lockVars>>

\* Board.shutdown: "if hasattr(self, 'serialmanager') and self.serialmanager:
\* self.serialscheduler.stop(); self.serialmanager.close()"
shutdown(l) ==
    IF l.kind = "serial" /\ l.manager # "None"
    THEN [l EXCEPT !.running = FALSE, !.manager = "closed", !.tasks = "cancelled"]
    ELSE l

\* HardwareHandler.unload_hardware: "for board in self.boards:
\* board.shutdown()", then "self.boards = []"
unload_hardware ==
    /\ unloads < MaxUnloads
    /\ link' = [b \in BoardNames |-> IF b \in boards THEN shutdown(link[b]) ELSE link[b]]
    /\ boards' = {}
    /\ unloads' = unloads + 1
    /\ UNCHANGED <<refusals, boardVars, smVars, trVars, hfVars, lgVars, lockVars>>

\* the event loop has run every task that was ready: each board's initialise
\* task has run, no scheduler and no polling loop is past the end of its
\* sleep, and a device that answers has answered
Idle(b) ==
    /\ link[b].manager # "None"
    /\ ~SchedulerDue(link[b], now)
    /\ \A start_time \in link[b].pending : now - start_time < timeout_time
    /\ (~link[b].dark /\ link[b].manager = "open") => link[b].pending = {}

\* a second passes, which is longer than the event loop takes to run the
\* tasks that are ready
HwTick ==
    /\ now < MaxHwTime
    /\ \A b \in BoardNames : Idle(b)
    /\ now < next_wake
    /\ now' = now + 1
    /\ sm_last' = [op |-> "tick", target |-> "", reply |-> <<>>, hooks |-> <<>>]
    /\ UNCHANGED <<sequencejson, sm_state, statechange_time, cycle, next_wake, boardVars,
                   trVars, hfVars, lgVars, lockVars, hwVars>>

HWNext ==
    \/ HwTick
    \/ main_loop
    \/ \E b \in BoardNames : initialise(b)
    \/ \E b \in BoardNames : start_sending(b)
    \/ \E b \in BoardNames : \E start_time \in 0..MaxHwTime : send_receive_answered(b, start_time)
    \/ \E b \in BoardNames : \E start_time \in 0..MaxHwTime : send_receive_timeout(b, start_time)
    \/ unload_hardware

\* ------------------------------------------------------------------------
\* The locks of one SerialManager and the tasks that take them
\* ------------------------------------------------------------------------
\* one stretch of a task's code: from a statement to the next, the lock its
\* "async with" takes or leaves on the way, and whether it ends at an await
\* that suspends the task (readline, sleep, drain, the end of the task)
Stretch(from, to, acquire, release, awaits) ==
    [from |-> from, to |-> to, acquire |-> acquire, release |-> release, awaits |-> awaits]

\* _read_loop: a line without send_id goes back to readline; a frame is
\* stored under buffer_lock, then queued under cleanup_lock
read_loop_code ==
    { Stretch("readline", "readline", "", "", TRUE),
      Stretch("readline", "acquire_buffer_lock", "", "", FALSE),
      Stretch("acquire_buffer_lock", "store", "buffer_lock", "", FALSE),
      Stretch("store", "acquire_cleanup_lock", "", "buffer_lock", FALSE),
      Stretch("acquire_cleanup_lock", "append", "cleanup_lock", "", FALSE),
      Stretch("append", "readline", "", "cleanup_lock", TRUE) }

\* _readbuffer_cleanloop: under cleanup_lock, every expired entry is popped
\* and deleted under buffer_lock; then the task sleeps
readbuffer_cleanloop_code ==
    { Stretch("sleep", "acquire_cleanup_lock", "", "", FALSE),
      Stretch("acquire_cleanup_lock", "scan", "cleanup_lock", "", FALSE),
      Stretch("scan", "acquire_buffer_lock", "", "", FALSE),
      Stretch("acquire_buffer_lock", "delete", "buffer_lock", "", FALSE),
      Stretch("delete", "scan", "", "buffer_lock", FALSE),
      Stretch("scan", "sleep", "", "cleanup_lock", TRUE) }

\* send_receive: the id is reserved under send_id_lock, the frame written and
\* drained; the polling loop looks into the buffer under buffer_lock and
\* sleeps 1 ms between two looks, until the frame is found or the time is up
send_receive_code ==
    { Stretch("idle", "acquire_send_id_lock", "", "", FALSE),
      Stretch("acquire_send_id_lock", "reserve", "send_id_lock", "", FALSE),
      Stretch("reserve", "drain", "", "send_id_lock", TRUE),
      Stretch("drain", "poll", "", "", FALSE),
      Stretch("poll", "acquire_buffer_lock", "", "", FALSE),
      Stretch("poll", "idle", "", "", TRUE),
      Stretch("acquire_buffer_lock", "look", "buffer_lock", "", FALSE),
      Stretch("look", "idle", "", "buffer_lock", TRUE),
      Stretch("look", "poll_sleep", "", "buffer_lock", TRUE),
      Stretch("poll_sleep", "poll", "", "", FALSE) }

\* leaving an "async with" block without releasing the lock
Released_StillHeld(lk, l) == lk

\* asyncio.Lock.release
Released(lk, l) == [lk EXCEPT ![l] = "free"]

\* the event loop runs task t over one stretch of its code: a task that is
\* running goes on until an await suspends it; Lock.acquire returns at once
\* on a free lock and suspends the task on a held one
Run(t, code) ==
    /\ \E s \in code :
         /\ s.from = task_pc[t]
         /\ IF s.acquire # "" /\ lock[s.acquire] # "free"
            THEN /\ running' = "none"
                 /\ UNCHANGED <<lock, task_pc>>
            ELSE /\ lock' = IF s.acquire # "" THEN [lock EXCEPT ![s.acquire] = t]
                            ELSE IF s.release # "" THEN Released(lock, s.release)
                            ELSE lock
                 /\ task_pc' = [task_pc EXCEPT ![t] = s.to]
                 /\ running' = IF s.awaits THEN "none" ELSE t
    /\ UNCHANGED <<boardVars, smVars, trVars, hfVars, hwVars, lgVars>>

read_loop_task ==
    /\ running \in {"_read_loop", "none"}
    /\ Run("_read_loop", read_loop_code)

readbuffer_cleanloop_task ==
    /\ running \in {"_readbuffer_cleanloop", "none"}
    /\ Run("_readbuffer_cleanloop", readbuffer_cleanloop_code)

send_receive_task(caller) ==
    /\ running \in {caller, "none"}
    /\ Run(caller, send_receive_code)

LockNext ==
    \/ read_loop_task
    \/ readbuffer_cleanloop_task
    \/ \E caller \in Callers : send_receive_task(caller)

\* ------------------------------------------------------------------------
\* send_receive statement by statement, from the call to the write
\* ------------------------------------------------------------------------
\* a send_receive with an await between the assignment of send_id to the
\* command dictionary and json.dumps
send_receive_write_code_AwaitBeforeDumps ==
    { Stretch("idle", "acquire_send_id_lock", "", "", FALSE),
      Stretch("acquire_send_id_lock", "reserve", "send_id_lock", "", FALSE),
      Stretch("reserve", "stamp", "", "send_id_lock", FALSE),
      Stretch("stamp", "dumps", "", "", TRUE),
      Stretch("dumps", "drain", "", "", TRUE),
      Stretch("drain", "idle", "", "", TRUE) }

\* "async with self.send_id_lock: send_id = self.send_id; self.send_id += 1",
\* "message_json['send_id'] = send_id", "message = json.dumps(message_json)"
\* with the write, "await self.writer.drain()" (udp: sendto, and the first
\* sleep of the polling loop), and the rest of the call
send_receive_write_code ==
    { Stretch("idle", "acquire_send_id_lock", "", "", FALSE),
      Stretch("acquire_send_id_lock", "reserve", "send_id_lock", "", FALSE),
      Stretch("reserve", "stamp", "", "send_id_lock", FALSE),
      Stretch("stamp", "dumps", "", "", FALSE),
      Stretch("dumps", "drain", "", "", TRUE),
      Stretch("drain", "idle", "", "", TRUE) }

\* the send_id local to the call that task caller is running
Reserved(caller) ==
    CHOOSE id \in DOMAIN waiters : waiters[id].task = caller /\ waiters[id].pc = "reserved"

\* the event loop runs one call of send_receive, made with the scheduler's
\* command dictionary, over one stretch of its code
send_receive_statement(caller) ==
    /\ running \in {caller, "none"}
    /\ \E s \in send_receive_write_code :
         /\ s.from = task_pc[caller]
         /\ s.from = "idle" => send_id < MaxSend
         /\ IF s.acquire # "" /\ lock[s.acquire] # "free"
            THEN /\ running' = "none"
                 /\ UNCHANGED <<lock, task_pc, send_id, waiters, command, wire_out>>
            ELSE /\ lock' = IF s.acquire # "" THEN [lock EXCEPT ![s.acquire] = caller]
                            ELSE IF s.release # "" THEN Released(lock, s.release)
                            ELSE lock
                 /\ task_pc' = [task_pc EXCEPT ![caller] = s.to]
                 /\ running' = IF s.awaits THEN "none" ELSE caller
                 /\ send_id' = IF s.from = "reserve" THEN send_id + 1 ELSE send_id
                 /\ waiters' =
                        CASE s.from = "reserve" ->
                                 (send_id :> [pc |-> "reserved", task |-> caller]) @@ waiters
                          [] s.from = "dumps" ->
                                 [waiters EXCEPT ![Reserved(caller)] =
                                     [pc |-> "drain", task |-> caller]]
                          [] OTHER -> waiters
                 /\ command' = IF s.from = "stamp"
                               THEN Put(command, "send_id", Reserved(caller))
                               ELSE command
                 /\ wire_out' = IF s.from = "dumps" THEN Append(wire_out, command) ELSE wire_out
    /\ UNCHANGED <<read_buffer, cleanup_queue, cleanup_wake, applied, evicted>>
    /\ UNCHANGED <<boardVars, smVars, hfVars, hwVars, lgVars>>

StatementNext ==
    \E caller \in Callers : send_receive_statement(caller)

\* ------------------------------------------------------------------------
\* The command of a scheduler and the frames serialized from it
\* ------------------------------------------------------------------------
\* json.dumps of a dictionary that holds the command as it was built
dumps_Snapshot(message_json, cfg, ds) == message_json

\* json.dumps(message_json): the command of an actuator board is
\* {"timestamp": 0, **self.board.desired_state}, a shallow copy whose values
\* under the hardware types are the very dictionaries of board.desired_state,
\* which update_desired_state and disarm_all change in place; the command of a
\* sensor board is made of fresh dictionaries
dumps(message_json, cfg, ds) ==
    IF is_actuator(cfg)
    THEN [k \in DOMAIN message_json |-> IF Has(ds, k) THEN ds[k] ELSE message_json[k]]
    ELSE message_json

\* create_command of the serial scheduler starts from {"timestamp": 0}, the
\* one of the udp scheduler from {}
scheduler_create_command(kind, cfg, st, ds) ==
    LET message == create_command(cfg, st, ds)
    IN  IF kind = "serial" THEN message
        ELSE [k \in DOMAIN message \ {"timestamp"} |-> message[k]]

\* Board.initialise_serial / initialise_udp with the scheduler's
\* "self.command = self.create_command()"
scheduler_init(b) ==
    /\ link[b].manager = "None"
    /\ LET l == link[b]
           opened == [l EXCEPT !.manager = "open", !.tasks = "running", !.running = TRUE,
                               !.epoch = now, !.cycle = 0, !.wake = now]
       IN  link' = [link EXCEPT ![b] =
                      ("command" :> scheduler_create_command(l.kind, board_config[b], state[b],
                                                             desired_state[b])) @@ opened]
    /\ UNCHANGED <<boards, unloads, refusals, boardVars, smVars, trVars, hfVars, lgVars, lockVars>>

\* one iteration of start_sending with the send_receive it creates, up to the
\* write: "message_json['send_id'] = send_id" on the scheduler's command
\* dictionary, then json.dumps
scheduler_send(b) ==
    /\ Has(link[b], "command")
    /\ SchedulerDue(link[b], now)
    /\ link[b].manager = "open"
    /\ LET l == link[b]
           next_time == l.epoch + (l.cycle + 2) * l.polling_interval
           message_json == Put(l.command, "send_id", l.sent)
       IN  /\ link' = [link EXCEPT ![b] =
                         [l EXCEPT !.sent = l.sent + 1,
                                   !.command = message_json,
                                   !.cycle = l.cycle + 1,
                                   !.wake = Max(now, next_time)]]
           /\ lastOp' = [name |-> "send_receive", board |-> b,
                         arg |-> dumps(message_json, board_config[b], desired_state[b])]
    /\ UNCHANGED <<boards, unloads, refusals, board_config, state, desired_state,
                   smVars, trVars, hfVars, lgVars, lockVars>>

\* telemetry reaches a board through the send_receive of its open manager
scheduler_answered(b, new_state) ==
    /\ link[b].manager = "open"
    /\ update_state(b, new_state)

\* the telemetry of a device that reports every item armed
ArmedFrames ==
    { f \in StateFrames : \A hw \in DOMAIN f : \A it \in DOMAIN f[hw] : f[hw][it] = [armed |-> TRUE] }

\* a second passes once every initialise task has run and no scheduler is
\* past the end of its sleep
SchedulerTick ==
    /\ \A b \in BoardNames : link[b].manager # "None" /\ ~SchedulerDue(link[b], now)
    /\ WireTick

SchedulerNext ==
    \/ SchedulerTick
    \/ \E b \in BoardNames : scheduler_init(b)
    \/ \E b \in BoardNames : scheduler_send(b)
    \/ \E f \in InputsFor(board_config["ActuatorBoard"], ArmedFrames) :
          scheduler_answered("ActuatorBoard", f)
    \/ \E p \in InputsFor(board_config["ActuatorBoard"], DesiredPayloads) :
          update_desired_state("ActuatorBoard", p)
    \/ disarm_all

SchedulerHWInit ==
    /\ boards = BoardNames
    /\ \E kind \in Kinds :
           link = [b \in BoardNames |-> Constructed(kind, FALSE, 1)]
    /\ unloads = 0
    /\ refusals = 0

\* the actuator board carries the fully configured servo or the valves
SchedulerBoardInit ==
    /\ BoardInit
    /\ Has(board_config["ActuatorBoard"], "servos") =>
          /\ Has(board_config["ActuatorBoard"]["servos"]["main"], "safe_angle")
          /\ Has(board_config["ActuatorBoard"]["servos"]["main"], "disarm_angle")

InitScheduler == SchedulerBoardInit /\ SMInit /\ TRInit /\ HFInit /\ SchedulerHWInit /\ LGRest /\ LockRest

SpecScheduler == InitScheduler /\ [][SchedulerNext]_vars

\* ------------------------------------------------------------------------
\* SerialManager.initialize, send_receive and close of one manager
\* ------------------------------------------------------------------------
MaxRefusals == 2

\* initialize has opened the port and created the reader and cleanup tasks
\* ("open"), or open_serial_connection has failed and reader and writer are
\* None ("None"); Board.initialise_serial keeps the manager and constructs the
\* scheduler in both cases
Initialized(opened) ==
    [Constructed("serial", FALSE, 1) EXCEPT !.manager = IF opened THEN "open" ELSE "None",
                                            !.tasks = IF opened THEN "running" ELSE "none"]

CallInit ==
    /\ boards = BoardNames
    /\ \E opened \in BOOLEAN :
          link = [b \in BoardNames |-> IF b = ManagedBoard THEN Initialized(opened)
                                       ELSE Constructed("serial", FALSE, 1)]
    /\ unloads = 0
    /\ refusals = 0

\* "if not self.writer: ... return None"
send_receive_refused ==
    /\ link[ManagedBoard].manager = "None"
    /\ refusals < MaxRefusals
    /\ refusals' = refusals + 1
    /\ UNCHANGED <<boards, link, unloads, boardVars, smVars, trVars, hfVars, lgVars, lockVars>>

\* send_receive with the port open
send_receive_open ==
    /\ link[ManagedBoard].manager = "open"
    /\ send_receive_write

\* send_receive after close(): self.writer is still the closed writer, so the
\* guard lets the call through and the id is reserved; the write to the
\* closed transport puts nothing on the wire, and drain returns or raises
\* (the exception is caught and logged by the call)
send_receive_closed ==
    /\ link[ManagedBoard].manager = "closed"
    /\ send_id < MaxSend
    /\ send_id' = send_id + 1
    /\ command' = Put(command, "send_id", send_id)
    /\ \E pc \in {"drain", "error"} : waiters' = (send_id :> [pc |-> pc]) @@ waiters
    /\ UNCHANGED <<read_buffer, cleanup_queue, cleanup_wake, wire_out, applied, evicted, now>>
    /\ UNCHANGED <<boardVars, sequencejson, sm_state, statechange_time, cycle, next_wake,
                   sm_last, hfVars, lgVars, lockVars, hwVars>>

\* the reader task, while it is not cancelled
read_loop(line) ==
    /\ link[ManagedBoard].tasks = "running"
    /\ read_line(line)

\* the cleanup task, while it is not cancelled
readbuffer_cleanloop ==
    /\ link[ManagedBoard].tasks = "running"
    /\ readbuffer_clean

\* SerialManager.close: running = False, both tasks cancelled, writer.close();
\* self.writer and self.reader are left as they are
close ==
    /\ link[ManagedBoard].manager = "open"
    /\ link' = [link EXCEPT ![ManagedBoard] = [@ EXCEPT !.manager = "closed",
                                                         !.tasks = "cancelled"]]
    /\ UNCHANGED <<boards, unloads, refusals, boardVars, smVars, trVars, hfVars, lgVars, lockVars>>

CallNext ==
    \/ WireTick
    \/ send_receive_refused
    \/ send_receive_open
    \/ send_receive_closed
    \/ \E id \in DOMAIN waiters : send_receive_drained(id)
    \/ \E id \in DOMAIN waiters : send_receive_poll(id)
    \/ \E line \in Lines : read_loop(line)
    \/ readbuffer_cleanloop
    \/ close

\* ------------------------------------------------------------------------
\* Board claims
\* ------------------------------------------------------------------------
\* the items of board b that a payload names and update_desired_state visits
NamedItems(b, payload) ==
    { <<hw, it>> \in HardwareTypes \X {"main", "vent", "ign", "p1", "ghost"} :
        /\ Has(desired_state[b], hw) /\ Has(payload, hw)
        /\ Has(payload[hw], it) /\ Has(state[b][hw], it) }

Disarmed(b, hw, it) ==
    Has(state[b][hw][it], "armed") /\ state[b][hw][it]["armed"] = FALSE

\* the payload asks to disarm a servo whose configuration has a disarm_angle
DisarmsServo(b, hw, it, item_data) ==
    /\ hw = "servos"
    /\ Has(item_data, "armed") /\ item_data["armed"] = FALSE
    /\ Has(board_config[b]["servos"][it], "disarm_angle")

FirewallHolds(b, hw, it, item_data) ==
    LET d  == desired_state[b][hw][it]
        dn == desired_state'[b][hw][it]
    IN  /\ \A f \in (DOMAIN d \cup DOMAIN dn) \ {"armed", "powered"} :
              \/ Has(d, f) /\ Has(dn, f) /\ dn[f] = d[f]
              \/ f = "angle" /\ DisarmsServo(b, hw, it, item_data) /\ dn[f] = 0
        /\ Has(dn, "powered") <=> Has(d, "powered")
        /\ Has(dn, "powered") => dn["powered"] = FALSE
        /\ IF Has(item_data, "armed")
           THEN dn["armed"] = item_data["armed"]
           ELSE /\ Has(dn, "armed") <=> Has(d, "armed")
                /\ Has(d, "armed") => dn["armed"] = d["armed"]

\* C1: an update_desired_state on an item whose actual state is disarmed
\* copies no incoming non-armed field into the item's desired state (every
\* such field keeps its pre-call value; the only other write is the angle
\* reset of a servo that the payload disarms), forces desired powered to
\* false when the field exists, and mirrors only an explicitly supplied armed.
C1_ArmingFirewall ==
    [][ lastOp'.name = "update_desired_state" =>
          \A k \in NamedItems(lastOp'.board, lastOp'.arg) :
              Disarmed(lastOp'.board, k[1], k[2]) =>
                  FirewallHolds(lastOp'.board, k[1], k[2], lastOp'.arg[k[1]][k[2]]) ]_vars

\* the scenario of the arming firewall: {servos:{main:{angle:45,powered:true}}}
\* sent to a disarmed servo whose desired state has a powered field
C1_Witness ==
    /\ lastOp.name = "update_desired_state"
    /\ lastOp.board = "ActuatorBoard"
    /\ lastOp.arg = ("servos" :> ("main" :> [angle |-> CommandAngle, powered |-> TRUE]))
    /\ Has(state["ActuatorBoard"], "servos")
    /\ state["ActuatorBoard"]["servos"]["main"]["armed"] = FALSE
    /\ Has(desired_state["ActuatorBoard"]["servos"]["main"], "powered")
    /\ desired_state["ActuatorBoard"]["servos"]["main"]["powered"] = FALSE
    /\ Has(desired_state["ActuatorBoard"]["servos"]["main"], "angle")
    /\ desired_state["ActuatorBoard"]["servos"]["main"]["angle"] = SafeAngle

\* C2: in every reachable state of every board, an item whose actual state
\* is disarmed has desired powered false.
C2_DisarmedImpliesUnpowered ==
    \A b \in BoardNames : \A hw \in DOMAIN desired_state[b] : \A it \in DOMAIN desired_state[b][hw] :
        (Disarmed(b, hw, it) /\ Has(desired_state[b][hw][it], "powered"))
            => desired_state[b][hw][it]["powered"] = FALSE


\* the boards as constructed, with the state machine and the transport at rest
Init == BoardInit /\ SMInit /\ TRInit /\ HFInit /\ HWRest /\ LGRest /\ LockRest

SpecBoard == Init /\ [][BoardNext]_vars

\* the state machine runs against the board set with the fully configured servo
SMBoardInit ==
    /\ BoardInit
    /\ Has(board_config["ActuatorBoard"], "servos")
    /\ Has(board_config["ActuatorBoard"]["servos"]["main"], "safe_angle")
    /\ Has(board_config["ActuatorBoard"]["servos"]["main"], "disarm_angle")

InitSM == SMBoardInit /\ SMInit /\ TRInit /\ HFInit /\ HWRest /\ LGRest /\ LockRest

SpecSM == InitSM /\ [][SMNext]_vars

TimelineInit == SMInit /\ sequencejson["hotfire_safing_time"] = 1

InitTransport == SMBoardInit /\ TimelineInit /\ TRInit /\ HFInit /\ HWRest /\ LGRest /\ LockRest

SpecTransport == InitTransport /\ [][TRNext]_vars

\* time advances, and the event loop runs the cleanup task again whenever
\* its sleep has ended
TRFairness ==
    /\ WF_vars(WireTick)
    /\ WF_vars(readbuffer_clean)

SpecTransportFair == SpecTransport /\ TRFairness

\* the state machine between Startup, Idle and EngineAbort while the actuator
\* board reports its telemetry
AbortNext ==
    \/ Tick
    \/ \E target_state \in {"IdleState", "EngineAbortState"} : transition_to(target_state)
    \/ main_loop
    \/ \E f \in InputsFor(board_config["ActuatorBoard"], StateFrames) :
          update_state("ActuatorBoard", f)

InitAbort == SMBoardInit /\ TimelineInit /\ TRInit /\ HFInit /\ HWRest /\ LGRest /\ LockRest

SpecAbort == InitAbort /\ [][AbortNext]_vars

\* one manager after Board.initialise_serial, its port opened or not
InitCall == SMBoardInit /\ TimelineInit /\ TRInit /\ HFInit /\ CallInit /\ LGRest /\ LockRest

SpecCall == InitCall /\ [][CallNext]_vars

\* time advances and the event loop resumes every send_receive that is
\* waiting on drain or sleeping in its polling loop
CallFairness ==
    /\ WF_vars(WireTick)
    /\ \A id \in 0..MaxSend : WF_vars(send_receive_drained(id))
    /\ \A id \in 0..MaxSend : WF_vars(send_receive_poll(id))

SpecCallFair == SpecCall /\ CallFairness

\* the boards loaded, their transports not yet initialised
InitHardware == SMBoardInit /\ TimelineInit /\ TRInit /\ HFInit /\ HWInit /\ LGRest /\ LockRest

SpecHardware == InitHardware /\ [][HWNext]_vars

\* time advances, and the event loop runs every task that is ready: the
\* initialise tasks, the start_sending loops, the polling loops of the
\* send_receive calls and the main loop; a device that answers keeps answering
HWFairness ==
    /\ WF_vars(HwTick)
    /\ WF_vars(main_loop)
    /\ \A b \in BoardNames : WF_vars(initialise(b))
    /\ \A b \in BoardNames : WF_vars(start_sending(b))
    /\ \A b \in BoardNames : \A start_time \in 0..MaxHwTime :
          WF_vars(send_receive_answered(b, start_time))
    /\ \A b \in BoardNames : \A start_time \in 0..MaxHwTime :
          WF_vars(send_receive_timeout(b, start_time))

SpecHardwareFair == SpecHardware /\ HWFairness

\* ------------------------------------------------------------------------
\* State machine claims
\* ------------------------------------------------------------------------
Requested(target_state) ==
    sm_last'.op = "transition_to" /\ sm_last'.target = target_state

GrantedNext == sm_last'.reply[1] = "Transitioned to"
DeniedNext == sm_last'.reply[1] = "Attempted transition failed"

LastKeyframeTime ==
    CHOOSE t \in { float(k) : k \in DOMAIN sequencejson["sequence"] } :
        \A k \in DOMAIN sequencejson["sequence"] : float(k) <= t

SequenceComplete ==
    (now - statechange_time) - sequencejson["time_before_ignition"]
        > LastKeyframeTime + sequencejson["hotfire_safing_time"]

\* C3: in Hotfire a request for Idle is granted if and only if the hotfire
\* sequence is complete at the time of the request; when it is denied the
\* current state stays Hotfire.
C3_HotfireToIdleIffComplete ==
    [][ (sm_state = "HotfireState" /\ Requested("IdleState")) =>
            /\ GrantedNext <=> SequenceComplete
            /\ GrantedNext => sm_state' = "IdleState"
            /\ ~GrantedNext => (DeniedNext /\ sm_state' = "HotfireState") ]_vars

\* a request for Idle granted to a caller after the sequence completed
C3_Witness ==
    /\ sm_last.op = "transition_to"
    /\ sm_last.target = "IdleState"
    /\ sm_last.reply[1] = "Transitioned to"
    /\ sm_last.hooks[1] = <<"teardown", "HotfireState">>
    /\ sm_state = "IdleState"

\* C4: from Hotfire, requests for EngineAbort and for FTS are granted at any
\* time; requests for Hotfire, Launch and Hover are denied.
C4_HotfireRow ==
    [][ (sm_state = "HotfireState" /\ sm_last'.op = "transition_to") =>
            /\ sm_last'.target \in {"EngineAbortState", "FTSState"} =>
                   (GrantedNext /\ sm_state' = sm_last'.target)
            /\ sm_last'.target \in {"HotfireState", "LaunchState", "HoverState"} =>
                   (DeniedNext /\ sm_state' = "HotfireState") ]_vars

\* C5: from EngineAbort, a request for Idle is denied, with a reason, when
\* less than 2 s have elapsed since EngineAbort was entered and granted when
\* at least 2 s have elapsed; FTS is always granted; Hotfire, Launch and
\* Hover are always denied.
C5_EngineAbortRow ==
    [][ (sm_state = "EngineAbortState" /\ sm_last'.op = "transition_to") =>
            /\ sm_last'.target = "IdleState" =>
                   /\ GrantedNext <=> (now - statechange_time >= 2)
                   /\ ~GrantedNext => (DeniedNext /\ Len(sm_last'.reply[4]) > 0)
            /\ sm_last'.target = "FTSState" => GrantedNext
            /\ sm_last'.target \in {"HotfireState", "LaunchState", "HoverState"} => DeniedNext ]_vars

UntimedRow(current) ==
    CASE current = "StartupState" -> {"IdleState", "EngineAbortState", "FTSState"}
      [] current = "IdleState"    -> {"HotfireState", "EngineAbortState", "FTSState", "LaunchState"}
      [] current = "FTSState"     -> {"IdleState"}

\* C6: from Startup exactly Idle, EngineAbort and FTS are granted, from Idle
\* exactly Hotfire, EngineAbort, FTS and Launch, from FTS exactly Idle; every
\* other target is denied.
C6_UntimedRows ==
    [][ (sm_state \in {"StartupState", "IdleState", "FTSState"} /\ sm_last'.op = "transition_to") =>
            /\ GrantedNext <=> sm_last'.target \in UntimedRow(sm_state)
            /\ GrantedNext => sm_state' = sm_last'.target
            /\ ~GrantedNext => (DeniedNext /\ sm_state' = sm_state) ]_vars

\* Launch was entered from Idle on request
C6_Witness ==
    /\ sm_last.op = "transition_to"
    /\ sm_last.target = "LaunchState"
    /\ sm_last.reply[1] = "Transitioned to"
    /\ sm_last.hooks[1] = <<"teardown", "IdleState">>
    /\ sm_state = "LaunchState"

\* C7: a denied transition request leaves the current state, the
\* TimeKeeper's state-change epoch and its cycle counter unchanged, runs no
\* teardown or setup hook, and returns a reason.
C7_DeniedChangesNothing ==
    [][ (sm_last'.op = "transition_to" /\ DeniedNext) =>
            /\ sm_state' = sm_state
            /\ statechange_time' = statechange_time
            /\ cycle' = cycle
            /\ sm_last'.hooks = <<>>
            /\ Len(sm_last'.reply[4]) > 0 ]_vars

\* a request denied after the loop has run and after an earlier transition
C7_Witness ==
    /\ sm_last.op = "transition_to"
    /\ sm_last.reply[1] = "Attempted transition failed"
    /\ cycle > 0
    /\ statechange_time > 0
    /\ now > statechange_time

\* ------------------------------------------------------------------------
\* Transport claims
\* ------------------------------------------------------------------------
\* C8: the send_id values of the frames written to a transport are pairwise
\* distinct and strictly increasing in the order the frames are written,
\* whatever the number of send_receive calls in flight.
C8_SendIdsIncreasing ==
    \A i \in DOMAIN wire_out : \A j \in DOMAIN wire_out :
        i < j => wire_out[i]["send_id"] < wire_out[j]["send_id"]

\* two frames written while both calls are still in flight
C8_Witness ==
    /\ Len(wire_out) = 2
    /\ \A id \in {0, 1} : Has(waiters, id) /\ waiters[id].pc \in {"drain", "poll"}

HasSendId(line) == line.kind = "json" /\ Has(line.json, "send_id")

\* C9: a received frame reaches Board.update_state only through the
\* send_receive call that reserved the frame's send_id, at most once per
\* send_id, and leaves the pending buffer in that same step; the board state
\* changes in no other step; a line that fails to decode or carries no
\* send_id is neither buffered nor applied: every entry a step writes to
\* the buffer is a decoded frame filed under the send_id it carries, and that
\* step applies nothing.
C9_CorrelatedApplication ==
    [][ /\ applied' # applied =>
              \E id \in DOMAIN waiters :
                  /\ waiters[id].pc = "poll"
                  /\ Has(read_buffer, id)
                  /\ applied' = Append(applied, [waiter |-> id, frame |-> read_buffer[id].json])
                  /\ read_buffer[id].json["send_id"] = id
                  /\ ~Has(read_buffer', id)
                  /\ \A i \in DOMAIN applied : applied[i].waiter # id
                  /\ state'[ManagedBoard] = UpdatedState(state[ManagedBoard], read_buffer[id].json)
        /\ state' # state => applied' # applied
        /\ \A k \in DOMAIN read_buffer' :
              (~Has(read_buffer, k) \/ read_buffer'[k] # read_buffer[k]) =>
                  /\ HasSendId(JsonFrame(read_buffer'[k].json))
                  /\ read_buffer'[k].json["send_id"] = k
                  /\ applied' = applied /\ state' = state ]_vars

\* a response was claimed and its telemetry is in the board state
C9_Witness ==
    /\ Len(applied) = 2
    /\ state[ManagedBoard]["pts"]["p1"]["value"] = 7

TimedOut(id) == Has(waiters, id) /\ waiters[id].pc \in {"timeout", "timeout_logged"}

\* C10: a frame that arrives after its waiter timed out is delivered to no
\* waiter (it leaves the buffer only by the cleanup task's deletion, in a
\* step that applies nothing, and no waiter is ever handed a frame of another
\* send_id), and every entry placed in the pending buffer is eventually
\* removed, claimed by its waiter or evicted by the cleanup task: once the
\* line has gone quiet the pending buffer empties and stays empty.
C10_LateFramesCollected ==
    /\ [][ \A id \in DOMAIN read_buffer :
              (read_buffer[id].late /\ ~Has(read_buffer', id)) =>
                  (applied' = applied /\ state' = state /\ id \in evicted') ]_vars
    /\ [](\A i \in DOMAIN applied : applied[i].frame["send_id"] = applied[i].waiter)
    /\ <>[](DOMAIN read_buffer = {})

\* the cleanup task evicted a frame that arrived after its waiter timed out
C10_Witness ==
    /\ \E id \in evicted : TimedOut(id)
    /\ applied = <<>>

\* ------------------------------------------------------------------------
\* Automatic transitions
\* ------------------------------------------------------------------------
\* every servo, solenoid and pyro of every actuator board is disarmed in ds
AllDisarmed(ds) ==
    \A b \in BoardNames : \A hw \in ArmedTypes \cap DOMAIN ds[b] : \A it \in DOMAIN ds[b][hw] :
        Has(ds[b][hw][it], "armed") /\ ds[b][hw][it]["armed"] = FALSE

\* the main loop's tick takes the machine from a state to Idle by itself
AutoReturn(from) ==
    sm_state = from /\ sm_last'.op = "main_loop" /\ sm_state' = "IdleState"

\* C11: when the main loop returns the machine from Hotfire to Idle by
\* itself, the sequence is complete and, at the moment the machine is back in
\* Idle, every servo, solenoid and pyro of every actuator board has desired
\* armed false.
C11_HotfireReturnsDisarmed ==
    [][ AutoReturn("HotfireState") =>
            /\ SequenceComplete
            /\ AllDisarmed(desired_state') ]_vars

\* C12: the main loop takes the machine from Startup to Idle by itself only
\* once 5 s have elapsed since Startup was set up, and desired armed is then
\* false on every actuator, as disarm_all leaves it.
C12_StartupLeavesAfterFive ==
    [][ AutoReturn("StartupState") =>
            /\ now - statechange_time >= 5
            /\ AllDisarmed(desired_state') ]_vars

\* ------------------------------------------------------------------------
\* CommandProcessor: the "update desired state" route
\* ------------------------------------------------------------------------
\* HardwareHandler.update_board_desired_state, one iteration of the item loop
HandlerMergedItem(st_item, d_item, item_data) ==
    LET copied ==
            IF Has(st_item, "armed")
            THEN IF st_item["armed"]
                 THEN Merge(d_item, item_data)
                 ELSE IF Has(d_item, "powered") THEN Put(d_item, "powered", FALSE)
                                                ELSE d_item
            ELSE d_item
    IN  IF Has(item_data, "armed") THEN Put(copied, "armed", item_data["armed"])
                                   ELSE copied

\* HardwareHandler.update_board_desired_state: the string returned and the
\* board's desired_state afterwards
update_board_desired_state(st, ds, new_desired_state) ==
    IF \E hw_type \in DOMAIN new_desired_state : hw_type \notin HardwareTypes
    THEN [reply |-> <<"Hardware type not recognized">>, desired_state |-> ds]
    ELSE [reply |-> <<"Desired state updated successfully">>,
          desired_state |->
            [hw \in DOMAIN ds |->
                IF Has(new_desired_state, hw)
                THEN [it \in DOMAIN ds[hw] |->
                        IF Has(new_desired_state[hw], it) /\ Has(st[hw], it)
                        THEN HandlerMergedItem(st[hw][it], ds[hw][it], new_desired_state[hw][it])
                        ELSE ds[hw][it]]
                ELSE ds[hw]]]

\* the "message" fields an operator sends for the actuator board
OperatorMessages ==
    { ("servos" :> ("main" :> [armed |-> FALSE])),
      ("servos" :> ("main" :> [armed |-> TRUE, angle |-> CommandAngle])),
      ("lasers" :> ("main" :> [armed |-> TRUE])) }

\* process_message dispatching {"command": "update desired state", "data":
\* {"board_name": ..., "message": ...}} to CommandProcessor.update_desired_state
CommandProcessor_update_desired_state(board_name, new_desired_state) ==
    LET r == update_board_desired_state(state[board_name], desired_state[board_name],
                                        new_desired_state)
    IN  /\ desired_state' = [desired_state EXCEPT ![board_name] = r.desired_state]
        /\ lastOp' = [name |-> "update_board_desired_state", board |-> board_name,
                      arg |-> new_desired_state]
        /\ sm_last' = [op |-> "update desired state", target |-> board_name,
                       reply |-> r.reply, hooks |-> <<>>]
        /\ UNCHANGED <<board_config, state, sequencejson, now, sm_state, statechange_time,
                       cycle, next_wake, trVars, hfVars, lgVars, lockVars, hwVars>>

RouterNext ==
    \/ Tick
    \/ \E target_state \in StateClasses : transition_to(target_state)
    \/ main_loop
    \/ \E new_desired_state \in OperatorMessages :
        CommandProcessor_update_desired_state("ActuatorBoard", new_desired_state)

InitRouter == SMBoardInit /\ TimelineInit /\ TRInit /\ HFInit /\ HWRest /\ LGRest /\ LockRest

SpecRouter == InitRouter /\ [][RouterNext]_vars

\* ------------------------------------------------------------------------
\* proptestbackend.py: StateMachine, CommandProcessor and the loop of main
\* ------------------------------------------------------------------------
MachineStates == {"STARTTUP", "IDLE", "HOTFIRE", "ENGINEABORT"}

\* "if main_loop_time_keeper.time_since_statechange() > 5"
MainStartupDelay == 5

\* "if self.state_machine.time_keeper.time_since_statechange() < 2.0"
ReturnCooldown == 2

\* "while T > self.sorted_times[time_index]: time_index += 1"
RECURSIVE MainTimeIndexFrom(_, _, _)
MainTimeIndexFrom(times, T, time_index) ==
    IF T > times[time_index] THEN MainTimeIndexFrom(times, T, time_index + 1) ELSE time_index

\* StateMachine.HotfireController.get_hotfire_desiredstate
StateMachine_get_hotfire_desiredstate(seqjson, time_since_statechange) ==
    LET T     == get_T(seqjson, time_since_statechange)
        times == sorted_times(seqjson)
    IN  IF T < times[1] \/ T > times[Len(times)]
        THEN seqjson["start_end_desiredstate"]
        ELSE seqjson["sequence"][sorted_timestr(seqjson)[MainTimeIndexFrom(times, T, 1)]]

\* "for board_name, desired_state in ...items():
\* hardware_handler.update_board_desired_state(board_name, desired_state)"
MainPushed(board_desired_state) ==
    [b \in BoardNames |->
        IF Has(board_desired_state, b)
        THEN update_board_desired_state(state[b], desired_state[b], board_desired_state[b]).desired_state
        ELSE desired_state[b]]

\* HardwareHandler.disarm_all over the desired states given
MainDisarmed(ds) == [b \in BoardNames |-> DisarmedAll(board_config[b], ds[b])]

\* the machine after main has been set up: STARTTUP, the TimeKeeper of the
\* main loop started now
MainInit ==
    /\ SMBoardInit
    /\ sequencejson \in Timelines
    /\ now = 0
    /\ sm_state = "STARTTUP"
    /\ statechange_time = 0
    /\ cycle = 0
    /\ next_wake = 0
    /\ sm_last = [op |-> "init", target |-> "", reply |-> <<>>, hooks |-> <<>>]
    /\ changing_state = FALSE
    /\ entered_time = 0

\* time_keeper.time_since_statechange(): statechange_time is reset by the
\* main loop, at the first tick that finds changing_state set
TimeKeeper_time_since_statechange == now - statechange_time

\* a second passes; the sleep of the main loop does not outlast its end
MainTick ==
    /\ now < MaxTime
    /\ now < next_wake
    /\ now' = now + 1
    /\ sm_last' = [op |-> "tick", target |-> "", reply |-> <<>>, hooks |-> <<>>]
    /\ UNCHANGED <<sequencejson, sm_state, statechange_time, cycle, next_wake, boardVars,
                   trVars, hfVars, hwVars, lgVars, lockVars>>

\* process_message of {"command": "abort engine"}: StateMachine.abort_engine,
\* set_state(MachineStates.ENGINEABORT)
abort_engine ==
    /\ sm_state' = "ENGINEABORT"
    /\ changing_state' = TRUE
    /\ entered_time' = now
    /\ sm_last' = [op |-> "abort engine", target |-> "ENGINEABORT",
                   reply |-> <<"Engine abort sequence started">>, hooks |-> <<>>]
    /\ UNCHANGED <<sequencejson, now, statechange_time, cycle, next_wake, boardVars,
                   trVars, hfVars, hwVars, lockVars>>

\* process_message of {"command": "start hotfire sequence"}: StateMachine.start_hotfire
start_hotfire ==
    /\ IF sm_state # "IDLE"
       THEN /\ sm_last' = [op |-> "start hotfire sequence", target |-> "HOTFIRE",
                           reply |-> <<"Cannot start hotfire from current state", sm_state>>,
                           hooks |-> <<>>]
            /\ UNCHANGED <<sm_state, lgVars, lockVars>>
       ELSE /\ sm_state' = "HOTFIRE"
            /\ changing_state' = TRUE
            /\ entered_time' = now
            /\ sm_last' = [op |-> "start hotfire sequence", target |-> "HOTFIRE",
                           reply |-> <<"Hotfire sequence started">>, hooks |-> <<>>]
    /\ UNCHANGED <<sequencejson, now, statechange_time, cycle, next_wake, boardVars,
                   trVars, hfVars, hwVars, lockVars>>

\* process_message of {"command": "return to idle"}: CommandProcessor.return_to_idle
return_to_idle ==
    /\ IF sm_state = "ENGINEABORT" /\ ~(TimeKeeper_time_since_statechange < ReturnCooldown)
       THEN /\ sm_state' = "IDLE"
            /\ changing_state' = TRUE
            /\ entered_time' = now
            /\ statechange_time' = now
            /\ cycle' = 0
            /\ desired_state' = MainDisarmed(desired_state)
            /\ lastOp' = [name |-> "disarm_all", board |-> "", arg |-> EmptyDict]
            /\ sm_last' = [op |-> "return to idle", target |-> "IDLE",
                           reply |-> <<"Returned to IDLE state">>, hooks |-> <<>>]
       ELSE /\ sm_last' = [op |-> "return to idle", target |-> "IDLE",
                           reply |-> CASE sm_state = "IDLE" -> <<"Already in IDLE state">>
                                       [] sm_state = "STARTTUP" ->
                                            <<"Cannot return to IDLE from STARTUP state">>
                                       [] sm_state = "HOTFIRE" ->
                                            <<"Cannot return to IDLE from HOTFIRE state, use abort">>
                                       [] OTHER -> <<"Cannot return to IDLE only", TimeKeeper_time_since_statechange,
                                                     "seconds after abort">>,
                           hooks |-> <<>>]
            /\ UNCHANGED <<sm_state, lgVars, lockVars, statechange_time, cycle, desired_state, lastOp>>
    /\ UNCHANGED <<sequencejson, now, next_wake, board_config, state, trVars, hfVars, hwVars,
                   lockVars>>

\* one iteration of "while True:" in main: cycle_start, the statechange of a
\* pending changing_state, the branch of current_state, cycle_end
main_while ==
    /\ now >= next_wake
    /\ LET sc0  == IF changing_state THEN now ELSE statechange_time
           cyc0 == IF changing_state THEN 0 ELSE cycle
           tss  == now - sc0
           to_idle_startup == sm_state = "STARTTUP" /\ tss > MainStartupDelay
           complete == sm_state = "HOTFIRE" /\ is_hotfire_complete(sequencejson, tss)
           pushed ==
               CASE sm_state = "ENGINEABORT" -> MainPushed(get_abort_desiredstate(sequencejson))
                 [] sm_state = "HOTFIRE" ->
                        MainPushed(StateMachine_get_hotfire_desiredstate(sequencejson, tss))
                 [] OTHER -> desired_state
           sc1  == IF complete THEN now ELSE sc0
           cyc1 == IF complete THEN 0 ELSE cyc0
       IN  /\ sm_state' = IF to_idle_startup \/ complete THEN "IDLE" ELSE sm_state
           /\ changing_state' = (to_idle_startup \/ complete)
           /\ entered_time' = IF to_idle_startup \/ complete THEN now ELSE entered_time
           /\ desired_state' = IF to_idle_startup \/ complete THEN MainDisarmed(pushed) ELSE pushed
           /\ lastOp' = IF to_idle_startup \/ complete
                        THEN [name |-> "disarm_all", board |-> "", arg |-> EmptyDict]
                        ELSE IF sm_state \in {"ENGINEABORT", "HOTFIRE"}
                             THEN [name |-> "update_board_desired_state", board |-> "ActuatorBoard",
                                   arg |-> EmptyDict]
                             ELSE lastOp
           /\ statechange_time' = sc1
           /\ cycle' = cyc1 + 1
           /\ next_wake' = Max(now, sc1 + (cyc1 + 2) * cycle_time)
           /\ sm_last' = [op |-> "main", target |-> sm_state, reply |-> <<>>, hooks |-> <<>>]
    /\ UNCHANGED <<sequencejson, now, board_config, state, trVars, hfVars, hwVars, lockVars>>

MainNext ==
    \/ MainTick
    \/ main_while
    \/ abort_engine
    \/ start_hotfire
    \/ return_to_idle

InitMain == MainInit /\ TRInit /\ HFInit /\ HWRest /\ LockRest

SpecMain == InitMain /\ [][MainNext]_vars

\* the concurrent calls of send_receive of one manager taken alone
InitStatement == SMBoardInit /\ SMInit /\ TRInit /\ HFInit /\ HWRest /\ LGRest /\ LockRest

SpecStatement == InitStatement /\ [][StatementNext]_vars

\* the tasks of one SerialManager taken alone
InitLocks == SMBoardInit /\ TimelineInit /\ TRInit /\ HFInit /\ HWRest /\ LGRest /\ LockRest

SpecLocks == InitLocks /\ [][LockNext]_vars

\* the event loop runs every task that is ready
LockFairness ==
    /\ WF_vars(read_loop_task)
    /\ WF_vars(readbuffer_cleanloop_task)
    /\ \A caller \in Callers : WF_vars(send_receive_task(caller))

SpecLocksFair == SpecLocks /\ LockFairness

\* C13: while the machine is in Hotfire an operator "update desired state"
\* command is rejected by the command router and leaves the desired_state of
\* every board as it was.
C13_HotfireRejectsOperatorUpdate ==
    [][ (sm_state = "HotfireState" /\ sm_last'.op = "update desired state") =>
            /\ desired_state' = desired_state
            /\ sm_last'.reply # <<"Desired state updated successfully">> ]_vars

\* ------------------------------------------------------------------------
\* HotfireController lookups
\* ------------------------------------------------------------------------
InitHotfire ==
    /\ SMBoardInit
    /\ TRInit
    /\ sequencejson \in HotfireTimelines
    /\ now = 0
    /\ sm_state = "StartupState"
    /\ statechange_time = 0
    /\ cycle = 0
    /\ next_wake = 0
    /\ sm_last = [op |-> "init", target |-> "StartupState",
                  reply |-> <<"Transitioned to", "StartupState">>,
                  hooks |-> << <<"install", "StartupState">>, <<"setup", "StartupState">>,
                               <<"statechange">> >>]
    /\ hf_call = NoCall
    /\ HWRest
    /\ LGRest /\ LockRest

SpecHotfire == InitHotfire /\ [][HotfireNext]_vars

\* the last call was a lookup, and T and the keyframe times of that call
Looked == hf_call.op = "get_hotfire_desiredstate"
LookedT == get_T(sequencejson, hf_call.t)
KeyTimeAt(i) == sorted_times(sequencejson)[i]
KeyframeAt(i) == sequencejson["sequence"][sorted_timestr(sequencejson)[i]]
LastKey == Len(sorted_times(sequencejson))
InsideSequence == KeyTimeAt(1) <= LookedT /\ LookedT <= KeyTimeAt(LastKey)

\* the largest index i with sorted_times[i] <= T
FloorKey == CHOOSE i \in 1..LastKey :
                /\ KeyTimeAt(i) <= LookedT
                /\ \A j \in 1..LastKey : KeyTimeAt(j) <= LookedT => j <= i

\* C14: for T inside [sorted_times[0], sorted_times[-1]] the lookup takes as
\* base the keyframe with the largest index i such that sorted_times[i] <= T:
\* what the base supplies unramped (the solenoids) is keyframe i's, and at
\* T = sorted_times[i] exactly the servo angle is keyframe i's, the last
\* keyframe included.
C14_BaseIsFloorKeyframe ==
    (Looked /\ InsideSequence) =>
        /\ hf_call.value["ActuatorBoard"]["solenoids"] = KeyframeAt(FloorKey)["ActuatorBoard"]["solenoids"]
        /\ LookedT = KeyTimeAt(FloorKey) =>
              hf_call.value["ActuatorBoard"]["servos"]["main"]["angle"]
                  = KeyframeAt(FloorKey)["ActuatorBoard"]["servos"]["main"]["angle"]

\* C15: for T before the first keyframe time or after the last one, the
\* safing window included, the lookup returns start_end_desiredstate, which
\* is also what get_abort_desiredstate returns.
C15_SafingOutsideSequence ==
    (Looked /\ ~InsideSequence) =>
        /\ hf_call.value = sequencejson["start_end_desiredstate"]
        /\ hf_call.value = get_abort_desiredstate(sequencejson)

\* a lookup in the safing window after a last keyframe that differs from the
\* safing snapshot
C15_Witness ==
    /\ Looked
    /\ LookedT > KeyTimeAt(LastKey)
    /\ LookedT <= hotfire_end_time(sequencejson)
    /\ KeyframeAt(LastKey) # sequencejson["start_end_desiredstate"]
    /\ hf_call.value = SafingSnapshot

\* the servo entry of keyframe i and the one the last call returned
ServoAt(i) == KeyframeAt(i)["ActuatorBoard"]["servos"]["main"]
ReturnedServo == hf_call.value["ActuatorBoard"]["servos"]["main"]
Ramps(i) == Has(ServoAt(i), "ramp_to_next") /\ ServoAt(i)["ramp_to_next"] = TRUE

\* the returned angle is (a*(t1 - T) + b*(T - t0)) / (t1 - t0) for the ramp
\* from keyframe i to keyframe i+1, and the entry has lost ramp_to_next
RampedBetween(i) ==
    /\ ReturnedServo["angle"] * (KeyTimeAt(i + 1) - KeyTimeAt(i))
           = ServoAt(i)["angle"] * (KeyTimeAt(i + 1) - LookedT)
               + ServoAt(i + 1)["angle"] * (LookedT - KeyTimeAt(i))
    /\ ~Has(ReturnedServo, "ramp_to_next")

\* C16: for every keyframe i whose servo entry has a truthy ramp_to_next and
\* every T in [t_i, t_{i+1}], the returned angle is the weighted mean of the
\* angles of keyframes i and i+1 (keyframe i's angle at T = t_i) and the
\* returned entry has no ramp_to_next key.
C16_RampInterpolates ==
    Looked =>
        \A i \in 1..(LastKey - 1) :
            (Ramps(i) /\ KeyTimeAt(i) <= LookedT /\ LookedT <= KeyTimeAt(i + 1)) => RampedBetween(i)

\* C17: the value a lookup or get_abort_desiredstate returns shares nothing
\* with the stored timeline: when the caller writes into it, the stored
\* keyframes and the stored safing snapshot stay as they were, and the same
\* call made again returns what it returned before.
C17_ResultSharesNothing ==
    [][ hf_call'.op = "written" =>
            /\ sequencejson' = sequencejson
            /\ get_hotfire_desiredstate(sequencejson', hf_call.t)
                   = get_hotfire_desiredstate(sequencejson, hf_call.t)
            /\ get_abort_desiredstate(sequencejson') = get_abort_desiredstate(sequencejson) ]_vars

\* ------------------------------------------------------------------------
\* disarm_all
\* ------------------------------------------------------------------------
\* item entry e is entry d with armed set to false and nothing else touched
OnlyDisarmed(d, e) ==
    /\ DOMAIN e = DOMAIN d \cup {"armed"}
    /\ e["armed"] = FALSE
    /\ \A k \in DOMAIN d \ {"armed"} : e[k] = d[k]

\* C18: disarm_all sets desired armed to false on every servo, solenoid and
\* pyro of every actuator board and changes nothing else: the other desired
\* fields, the actual state, the boards that are not actuators and the
\* transport (no frame written, no send_id taken) stay as they were; a
\* second disarm_all right after the first changes nothing.
C18_DisarmAllOnlyDisarms ==
    [][ lastOp'.name = "disarm_all" =>
            /\ \A b \in BoardNames :
                 IF is_actuator(board_config[b])
                 THEN /\ DOMAIN desired_state'[b] = DOMAIN desired_state[b]
                      /\ \A hw \in DOMAIN desired_state[b] :
                           IF hw \in ArmedTypes
                           THEN /\ DOMAIN desired_state'[b][hw] = DOMAIN desired_state[b][hw]
                                /\ \A it \in DOMAIN desired_state[b][hw] :
                                     OnlyDisarmed(desired_state[b][hw][it], desired_state'[b][hw][it])
                           ELSE desired_state'[b][hw] = desired_state[b][hw]
                 ELSE desired_state'[b] = desired_state[b]
            /\ state' = state
            /\ board_config' = board_config
            /\ wire_out' = wire_out
            /\ send_id' = send_id
            /\ trVars' = trVars
            /\ (lastOp.name = "disarm_all" => desired_state' = desired_state) ]_vars

\* a sweep has disarmed a solenoid whose desired powered is still true
C18_Witness ==
    /\ lastOp.name = "disarm_all"
    /\ Has(desired_state["ActuatorBoard"], "solenoids")
    /\ desired_state["ActuatorBoard"]["solenoids"]["vent"]["armed"] = FALSE
    /\ desired_state["ActuatorBoard"]["solenoids"]["vent"]["powered"] = TRUE
    /\ desired_state["ActuatorBoard"]["pyros"]["ign"]["armed"] = FALSE

\* the payload of the step asks for powered = true on item it of board b
RequestsPower(op, b, hw, it) ==
    /\ op.name = "update_desired_state"
    /\ op.board = b
    /\ Has(op.arg, hw)
    /\ Has(op.arg[hw], it)
    /\ Has(op.arg[hw][it], "powered")
    /\ op.arg[hw][it]["powered"] = TRUE

\* C19: right after a disarm_all, an update_desired_state that asks for
\* powered = true on an item the sweep disarmed does not leave that item's
\* desired powered true, whatever armed flag the board's actual state still
\* shows.
C19_NoPowerAfterDisarmAll ==
    [][ lastOp.name = "disarm_all" =>
            \A b \in BoardNames : \A hw \in ArmedTypes \cap DOMAIN desired_state[b] :
                \A it \in DOMAIN desired_state[b][hw] :
                    RequestsPower(lastOp', b, hw, it) =>
                        ~ /\ Has(desired_state'[b][hw][it], "powered")
                          /\ desired_state'[b][hw][it]["powered"] = TRUE ]_vars

\* ------------------------------------------------------------------------
\* update_desired_state
\* ------------------------------------------------------------------------
\* C20: update_desired_state is idempotent: once a payload has been applied
\* to a board, applying the same payload again, with no update_state in
\* between, gives the desired_state the first application gave.
C20_UpdateDesiredIdempotent ==
    lastOp.name = "update_desired_state" =>
        UpdatedDesiredState(board_config[lastOp.board], state[lastOp.board],
                            desired_state[lastOp.board], lastOp.arg)
            = desired_state[lastOp.board]

\* a payload has been merged into an armed servo with a disarm_angle: the
\* commanded angle was copied and then zeroed by the disarm request
C20_Witness ==
    /\ lastOp.name = "update_desired_state"
    /\ lastOp.arg = ("servos" :> ("main" :> [armed |-> FALSE, powered |-> TRUE, angle |-> CommandAngle]))
    /\ state["ActuatorBoard"]["servos"]["main"]["armed"] = TRUE
    /\ desired_state["ActuatorBoard"]["servos"]["main"] =
           [channel |-> 1, armed |-> FALSE, powered |-> TRUE, angle |-> 0]

\* ------------------------------------------------------------------------
\* state and desired_state
\* ------------------------------------------------------------------------
\* C21: state and desired_state of a board share nothing: update_state
\* leaves every desired_state as it was, and update_desired_state and
\* disarm_all leave every state as it was, from construction onward.
C21_StateAndDesiredApart ==
    [][ /\ lastOp'.name = "update_state" => desired_state' = desired_state
        /\ lastOp'.name \in {"update_desired_state", "disarm_all"} => state' = state ]_vars

\* telemetry has just armed a solenoid whose desired entry, copied from the
\* same defaults at construction, is still disarmed
C21_Witness ==
    /\ lastOp.name = "update_state"
    /\ Has(state["ActuatorBoard"], "solenoids")
    /\ state["ActuatorBoard"]["solenoids"]["vent"]["armed"] = TRUE
    /\ desired_state["ActuatorBoard"]["solenoids"]["vent"]["armed"] = FALSE

\* ------------------------------------------------------------------------
\* CommandProcessor.process_message behind the UDP server
\* ------------------------------------------------------------------------
\* values json.loads can return
JNumber == [type |-> "number"]
JNull == [type |-> "null"]
JString(text) == [type |-> "string", text |-> text]
JList(items) == [type |-> "list", items |-> items]
JObject(fields) == [type |-> "object", fields |-> fields]

\* the keys of self.commands
Commands ==
    {"get hardware json", "set hardware json", "reload hardware json", "send receive",
     "get state", "get startup tasks", "update desired state", "get running tasks",
     "add and run task", "stop task", "disarm all", "get hotfire sequence",
     "set hotfire sequence", "start hotfire sequence", "abort engine", "fts",
     "get boards states", "get boards desired states", "get time", "return to idle"}

TransitionVerbs == {"start hotfire sequence", "abort engine", "fts", "return to idle"}

\* "sub in text" for the strings of JsonValues
SubstringOf(sub, text) == sub = text \/ (text = "command data" /\ sub \in {"command", "data"})

\* the decoded datagrams: objects with and without the two fields, with
\* known and unknown verbs, and JSON values that are not objects
JsonValues ==
    { JObject(("command" :> JString(verb)) @@ ("data" :> JObject(EmptyDict)))
        : verb \in TransitionVerbs \cup {"get running tasks", "dance"} }
    \cup { JObject(EmptyDict),
           JObject("command" :> JString("fts")),
           JObject("data" :> JObject(EmptyDict)),
           JObject(("command" :> JList(<<JString("fts")>>)) @@ ("data" :> JObject(EmptyDict))),
           JNumber, JNull, JString("abc"), JString("command data"),
           JList(<<JNumber>>), JList(<<JString("command"), JString("data")>>) }

Messages == {NotJson} \cup { JsonFrame(json) : json \in JsonValues }

Raise(error) == [kind |-> "raise", error |-> error]
Reply(command_, response) == [kind |-> "reply", command |-> command_, response |-> response]

\* Python's "key in value": TypeError on numbers and None, substring test on
\* strings, element test on lists, key test on dictionaries
Contains(value, key) ==
    CASE value.type = "string" -> SubstringOf(key, value.text)
      [] value.type = "list"   -> \E i \in DOMAIN value.items : value.items[i] = JString(key)
      [] value.type = "object" -> Has(value.fields, key)
      [] OTHER                 -> FALSE

\* CommandProcessor.process_message: the value returned or the exception raised
process_message(message) ==
    IF message.kind # "json"
    THEN Reply(JString("Invalid Message"), "Invalid JSON format")
    ELSE LET message_json == message.json
         IN  IF message_json.type \in {"number", "null"}
             THEN Raise("TypeError")
             ELSE IF ~Contains(message_json, "command") \/ ~Contains(message_json, "data")
             THEN Reply(JString("Invalid Message"), "Command not found in message")
             ELSE IF message_json.type # "object"
             THEN Raise("TypeError")
             ELSE LET command_ == message_json.fields["command"]
                  IN  IF command_.type \in {"list", "object"}
                      THEN Raise("TypeError")
                      ELSE IF command_.type = "string" /\ command_.text \in Commands
                      THEN Raise("NameError")
                      ELSE Reply(command_, "Unknown command")

\* UDPServerProtocol._process_message: the datagram sent back
SentDatagram(message) ==
    LET r == process_message(message)
    IN  IF r.kind = "reply"
        THEN [kind |-> "json", command |-> r.command, response |-> r.response]
        ELSE [kind |-> "text", text |-> <<"UDPSERVER Error processing message", r.error>>]

\* datagram_received and the task it creates
datagram_received(message) ==
    /\ sm_last' = [op |-> "process_message", target |-> "",
                   reply |-> <<message, SentDatagram(message)>>, hooks |-> <<>>]
    /\ UNCHANGED <<boardVars, sequencejson, now, sm_state, statechange_time, cycle, next_wake,
                   trVars, hfVars, lgVars, lockVars, hwVars>>

CommandsNext ==
    \/ Tick
    \/ \E target_state \in StateClasses : transition_to(target_state)
    \/ main_loop
    \/ \E message \in Messages : datagram_received(message)

InitCommands == SMBoardInit /\ TimelineInit /\ TRInit /\ HFInit /\ HWRest /\ LGRest /\ LockRest

SpecCommands == InitCommands /\ [][CommandsNext]_vars

\* the step processes a datagram: the message and the datagram sent back
Processed == sm_last'.op = "process_message"
ProcessedMessage == sm_last'.reply[1]
ProcessedReply == sm_last'.reply[2]

MachineAndBoardsUnchanged ==
    /\ sm_state' = sm_state
    /\ state' = state
    /\ desired_state' = desired_state

\* the reply is a JSON object with the keys command and response
JsonReply(datagram) == datagram.kind = "json"

Diagnosed(datagram, response) ==
    /\ JsonReply(datagram)
    /\ datagram.response = response
    /\ MachineAndBoardsUnchanged

IsObject(message) == message.kind = "json" /\ message.json.type = "object"

\* C22: for every input string the router answers with a JSON object with
\* the keys command and response; malformed JSON, a message without command
\* or data and an unknown verb get their own diagnostics and leave the
\* machine state and every board's state and desired_state as they were.
C22_EveryInputAnswered ==
    [][ Processed =>
            /\ JsonReply(ProcessedReply)
            /\ ProcessedMessage.kind # "json" => Diagnosed(ProcessedReply, "Invalid JSON format")
            /\ (/\ IsObject(ProcessedMessage)
                /\ ~ /\ Has(ProcessedMessage.json.fields, "command")
                     /\ Has(ProcessedMessage.json.fields, "data"))
                  => Diagnosed(ProcessedReply, "Command not found in message")
            /\ (/\ IsObject(ProcessedMessage)
                /\ Has(ProcessedMessage.json.fields, "command")
                /\ Has(ProcessedMessage.json.fields, "data")
                /\ ProcessedMessage.json.fields["command"] = JString("dance"))
                  => Diagnosed(ProcessedReply, "Unknown command") ]_vars

\* the state an operator verb asks for
RequestedBy(verb) ==
    CASE verb = "start hotfire sequence" -> "HotfireState"
      [] verb = "abort engine"           -> "EngineAbortState"
      [] verb = "fts"                    -> "FTSState"
      [] verb = "return to idle"         -> "IdleState"

\* the step processes the well-formed message {"command": verb, "data": {}}
ProcessedVerb(verb) ==
    /\ Processed
    /\ ProcessedMessage = JsonFrame(JObject(("command" :> JString(verb)) @@ ("data" :> JObject(EmptyDict))))

\* C23: an operator transition verb puts the machine in the requested state
\* exactly when the current state allows that transition, and leaves the
\* machine state as it was otherwise (fts from Idle gives FTS, return to idle
\* from FTS gives Idle, abort engine from FTS changes nothing).
C23_VerbsFollowMatrix ==
    [][ \A verb \in TransitionVerbs :
            ProcessedVerb(verb) =>
                sm_state' = IF can_transition_to(sm_state, RequestedBy(verb), sequencejson,
                                                 now - statechange_time)[1]
                            THEN RequestedBy(verb)
                            ELSE sm_state ]_vars

\* ------------------------------------------------------------------------
\* Disarm angle
\* ------------------------------------------------------------------------
\* the step merges a payload carrying armed = false for servo it of board b
DisarmsServoBy(op, b, it) ==
    /\ op.name = "update_desired_state"
    /\ op.board = b
    /\ Has(op.arg, "servos")
    /\ Has(op.arg["servos"], it)
    /\ Has(op.arg["servos"][it], "armed")
    /\ op.arg["servos"][it]["armed"] = FALSE

\* the angle field of entry e is the one of entry d, present or absent
SameAngle(d, e) ==
    /\ Has(e, "angle") <=> Has(d, "angle")
    /\ Has(d, "angle") => e["angle"] = d["angle"]

\* C24: when a merge carries armed = false for a servo whose configuration
\* has a disarm_angle, the servo's desired angle becomes that configured
\* value; without a configured disarm_angle the disarm does not reset the
\* angle: it is the commanded one if the merge copied one, else the old one.
C24_DisarmAngleConfigured ==
    [][ \A b \in BoardNames :
            \A it \in (IF Has(desired_state[b], "servos") THEN DOMAIN desired_state[b]["servos"] ELSE {}) :
                DisarmsServoBy(lastOp', b, it) =>
                    LET cfg  == board_config[b]["servos"][it]
                        new  == desired_state'[b]["servos"][it]
                        data == lastOp'.arg["servos"][it]
                    IN  IF Has(cfg, "disarm_angle")
                        THEN Has(new, "angle") /\ new["angle"] = cfg["disarm_angle"]
                        ELSE IF state[b]["servos"][it]["armed"] /\ Has(data, "angle")
                             THEN Has(new, "angle") /\ new["angle"] = data["angle"]
                             ELSE SameAngle(desired_state[b]["servos"][it], new) ]_vars

\* ------------------------------------------------------------------------
\* Arming
\* ------------------------------------------------------------------------
DesiredArmed(ds, b, hw, it) ==
    /\ Has(ds[b], hw)
    /\ Has(ds[b][hw], it)
    /\ Has(ds[b][hw][it], "armed")
    /\ ds[b][hw][it]["armed"] = TRUE

\* the step merges a payload carrying armed = true for item it of board b
ArmsBy(op, b, hw, it) ==
    /\ op.name = "update_desired_state"
    /\ op.board = b
    /\ Has(op.arg, hw)
    /\ Has(op.arg[hw], it)
    /\ Has(op.arg[hw][it], "armed")
    /\ op.arg[hw][it]["armed"] = TRUE

\* C25: right after construction every servo, solenoid and pyro is disarmed
\* in desired_state, and an item's desired armed becomes true only in a step
\* that merges a payload carrying armed = true for that item.
C25_ArmedOnlyByExplicitMerge ==
    /\ AllDisarmed(desired_state)
    /\ [][ \A b \in BoardNames : \A hw \in ArmedTypes \cap DOMAIN desired_state[b] :
              \A it \in DOMAIN desired_state[b][hw] :
                  (DesiredArmed(desired_state', b, hw, it) /\ ~DesiredArmed(desired_state, b, hw, it))
                      => ArmsBy(lastOp', b, hw, it) ]_vars

\* ------------------------------------------------------------------------
\* HotfireController: completion
\* ------------------------------------------------------------------------
\* timelines with several ignition delays, safing times and last keyframes
CompletionTimelines ==
    { [time_before_ignition   |-> delay,
       hotfire_safing_time    |-> safing,
       start_end_desiredstate |-> SafingSnapshot,
       sequence               |-> ("0.0" :> Keyframe(0, TRUE, TRUE)) @@ (last :> Keyframe(90, FALSE, FALSE))]
      : delay \in {0, 1, 2}, safing \in {0, 1}, last \in {"1.0", "2.0"} }

call_is_hotfire_complete(time_since_statechange) ==
    /\ hf_call' = [op     |-> "is_hotfire_complete",
                   t      |-> time_since_statechange,
                   value  |-> is_hotfire_complete(sequencejson, time_since_statechange),
                   stored |-> FALSE]
    /\ UNCHANGED <<boardVars, smVars, trVars, hwVars, lgVars, lockVars>>

call_get_T(time_since_statechange) ==
    /\ hf_call' = [op     |-> "get_T",
                   t      |-> time_since_statechange,
                   value  |-> get_T(sequencejson, time_since_statechange),
                   stored |-> FALSE]
    /\ UNCHANGED <<boardVars, smVars, trVars, hwVars, lgVars, lockVars>>

CompletionNext ==
    \/ \E time_since_statechange \in 0..MaxCallTime : call_is_hotfire_complete(time_since_statechange)
    \/ \E time_since_statechange \in 0..MaxCallTime : call_get_T(time_since_statechange)

InitCompletion ==
    /\ SMBoardInit
    /\ TRInit
    /\ sequencejson \in CompletionTimelines
    /\ now = 0
    /\ sm_state = "StartupState"
    /\ statechange_time = 0
    /\ cycle = 0
    /\ next_wake = 0
    /\ sm_last = [op |-> "init", target |-> "StartupState",
                  reply |-> <<"Transitioned to", "StartupState">>,
                  hooks |-> << <<"install", "StartupState">>, <<"setup", "StartupState">>,
                               <<"statechange">> >>]
    /\ hf_call = NoCall
    /\ HWRest
    /\ LGRest /\ LockRest

SpecCompletion == InitCompletion /\ [][CompletionNext]_vars

\* timelines of one or two keyframes, the servo of each with or without
\* ramp_to_next
LookupTimelines ==
    { [time_before_ignition   |-> 1,
       hotfire_safing_time    |-> 1,
       start_end_desiredstate |-> SafingSnapshot,
       sequence               |-> sequence]
      : sequence \in UNION { [keys -> Keyframes] : keys \in (SUBSET {"0.0", "2.0"}) \ {{}} } }

call_lookup(time_since_statechange) ==
    /\ LET outcome == get_hotfire_desiredstate_outcome(sequencejson, time_since_statechange)
       IN  hf_call' = [op       |-> "lookup",
                       t        |-> time_since_statechange,
                       value    |-> outcome.value,
                       stored   |-> FALSE,
                       raises   |-> outcome.raises,
                       critical |-> outcome.critical]
    /\ UNCHANGED <<boardVars, smVars, trVars, hwVars, lgVars, lockVars>>

LookupNext ==
    \E time_since_statechange \in 0..MaxCallTime : call_lookup(time_since_statechange)

InitLookup ==
    /\ SMBoardInit
    /\ TRInit
    /\ sequencejson \in LookupTimelines
    /\ now = 0
    /\ sm_state = "StartupState"
    /\ statechange_time = 0
    /\ cycle = 0
    /\ next_wake = 0
    /\ sm_last = [op |-> "init", target |-> "StartupState",
                  reply |-> <<"Transitioned to", "StartupState">>,
                  hooks |-> << <<"install", "StartupState">>, <<"setup", "StartupState">>,
                               <<"statechange">> >>]
    /\ hf_call = NoCall
    /\ HWRest
    /\ LGRest /\ LockRest

SpecLookup == InitLookup /\ [][LookupNext]_vars

\* sorted_times[-1] + hotfire_safing_time of the stored timeline
EndOfSafing == KeyTimeAt(LastKey) + sequencejson["hotfire_safing_time"]

\* C26: is_hotfire_complete(t) is true exactly when T = t -
\* time_before_ignition is strictly greater than sorted_times[-1] +
\* hotfire_safing_time, so false at equality; once true it is true for every
\* later t; get_T(time_before_ignition) is 0.
C26_CompleteStrictlyAfterSafing ==
    /\ hf_call.op = "is_hotfire_complete" =>
          /\ hf_call.value = (hf_call.t - sequencejson["time_before_ignition"] > EndOfSafing)
          /\ hf_call.value =>
                \A later \in hf_call.t..MaxCallTime : is_hotfire_complete(sequencejson, later)
    /\ (hf_call.op = "get_T" /\ hf_call.t = sequencejson["time_before_ignition"]) =>
          hf_call.value = 0

\* the test was made at T = sorted_times[-1] + hotfire_safing_time exactly
\* and answered false
C26_Witness ==
    /\ hf_call.op = "is_hotfire_complete"
    /\ hf_call.t - sequencejson["time_before_ignition"] = EndOfSafing
    /\ hf_call.value = FALSE
    /\ sequencejson["time_before_ignition"] > 0

\* ------------------------------------------------------------------------
\* TimeKeeper pacing
\* ------------------------------------------------------------------------
\* the main loop's step ends in cycle_end: the counter and the epoch at the
\* moment cycle_end is called, after a transition the loop hook may have made
CycleEndCalled == sm_last'.op = "main_loop"
CalledCycle == IF sm_last'.hooks # <<>> THEN 0 ELSE cycle
CalledEpoch == IF sm_last'.hooks # <<>> THEN now ELSE statechange_time
NextTick == CalledEpoch + (CalledCycle + 1) * cycle_time

\* C27: cycle_end, called with counter value cycle, does not return before
\* statechange_epoch + (cycle+1)*cycle_time; when that instant has passed it
\* returns without waiting; it advances the counter by exactly one; a
\* statechange sets the counter to 0 and the epoch to now.
C27_CycleEndPacing ==
    [][ /\ CycleEndCalled =>
              /\ next_wake' >= NextTick
              /\ now >= NextTick => next_wake' = now
              /\ cycle' = CalledCycle + 1
        /\ (sm_last'.op = "transition_to" /\ GrantedNext) =>
              /\ cycle' = 0
              /\ statechange_time' = now ]_vars

\* ------------------------------------------------------------------------
\* Order of the hooks of a transition
\* ------------------------------------------------------------------------
\* C28: every granted transition, requested by a caller or made by a loop
\* hook, runs in this order and in one step: teardown of the outgoing state,
\* installation of the new state, reset of the TimeKeeper's state-change
\* epoch, setup of the new state.
C28_TeardownInstallResetSetup ==
    [][ (sm_last'.op \in {"transition_to", "main_loop"} /\ sm_state' # sm_state) =>
            sm_last'.hooks = << <<"teardown", sm_state>>, <<"install", sm_state'>>,
                                <<"statechange">>, <<"setup", sm_state'>> >> ]_vars

\* ------------------------------------------------------------------------
\* Hardware claims
\* ------------------------------------------------------------------------
\* the scheduler of the board is stopped, the manager's tasks are cancelled
\* and its transport is closed
ShutDown(l) == ~l.running /\ l.tasks = "cancelled" /\ l.manager = "closed"

\* C29: once unload_hardware has been called, every board, serial or UDP, has
\* its scheduler stopped, its reader and cleanup tasks cancelled and its
\* transport closed, and no step sends another frame for any board; a second
\* unload_hardware changes nothing.
C29_ShutdownSilencesEveryBoard ==
    /\ [](unloads >= 1 => \A b \in BoardNames : ShutDown(link[b]))
    /\ [][unloads >= 1 => \A b \in BoardNames : link'[b].sent = link[b].sent]_vars
    /\ [][(unloads >= 1 /\ unloads' = unloads + 1) => (link' = link /\ boards' = boards)]_vars

\* the scheduler of board b is running and the sleep of its cycle_end is over
TickReached(b) ==
    link[b].running /\ link[b].manager # "None" /\ now >= link[b].wake

\* C30: a scheduler whose tick is reached can dispatch at once, whatever
\* requests of its board are still unanswered; with a board whose device
\* never answers, every reached tick of every scheduler gets its dispatch,
\* every request to a device that answers over an open transport is
\* resolved, the main loop keeps completing cycles and time runs to the end.
C30_DarkBoardStallsNothing ==
    /\ [](\A b \in BoardNames : TickReached(b) => ENABLED start_sending(b))
    /\ \A b \in BoardNames : []<>(~TickReached(b))
    /\ \A b \in BoardNames :
          []<>(link[b].dark \/ link[b].manager # "open" \/ link[b].pending = {})
    /\ []<>(now < next_wake)
    /\ <>(now = MaxHwTime)

\* the dark board has two requests in flight at once while the other board
\* has had its requests answered and the main loop has completed cycles
C30_Witness ==
    \E d \in BoardNames : \E o \in BoardNames \ {d} :
        /\ link[d].dark /\ ~link[o].dark
        /\ Cardinality(link[d].pending) >= 2
        /\ link[d].sent >= 3
        /\ link[o].sent >= 2 /\ link[o].pending = {}
        /\ lastOp.name = "update_state" /\ lastOp.board = o
        /\ cycle >= 2
        /\ unloads = 0

\* ------------------------------------------------------------------------
\* Frame effect of update_state
\* ------------------------------------------------------------------------
\* the (hw_type, item) keys of a state dictionary
ItemKeys(st) == { <<hw, it>> \in (DOMAIN st) \X {"main", "vent", "ign", "p1", "ghost"} : Has(st[hw], it) }

\* item new is item old with exactly the fields of item_data overwritten
Overwritten(old, new, item_data) ==
    /\ DOMAIN new = DOMAIN old \cup DOMAIN item_data
    /\ \A f \in DOMAIN new : new[f] = IF Has(item_data, f) THEN item_data[f] ELSE old[f]

\* C31: an update_state of a board overwrites, in each item that the board
\* knows and the frame names under a configured hw_type, exactly the fields
\* the frame carries, leaves every other item, field and board as it was,
\* and no operation ever changes the (hw_type, item) keys of a state.
C31_UpdateStateFrameEffect ==
    /\ [](\A b \in BoardNames : ItemKeys(state[b]) = ItemKeys(InitState(board_config[b])))
    /\ [][ lastOp'.name = "update_state" =>
             LET b == lastOp'.board
                 frame == lastOp'.arg
             IN  /\ \A other \in BoardNames \ {b} : state'[other] = state[other]
                 /\ DOMAIN state'[b] = DOMAIN state[b]
                 /\ \A k \in ItemKeys(state[b]) :
                       IF k[1] \in HardwareTypes /\ Has(frame, k[1]) /\ Has(frame[k[1]], k[2])
                       THEN Overwritten(state[b][k[1]][k[2]], state'[b][k[1]][k[2]],
                                        frame[k[1]][k[2]])
                       ELSE state'[b][k[1]][k[2]] = state[b][k[1]][k[2]] ]_vars

\* a frame reporting the angle of the servo has been applied: the angle is the
\* reported one and the armed flag, which the frame did not carry, is there
C31_Witness ==
    /\ lastOp.name = "update_state"
    /\ lastOp.board = "ActuatorBoard"
    /\ lastOp.arg = ("servos" :> ("main" :> [angle |-> CommandAngle]))
    /\ Has(state["ActuatorBoard"], "servos")
    /\ state["ActuatorBoard"]["servos"]["main"]["angle"] = CommandAngle
    /\ Has(state["ActuatorBoard"]["servos"]["main"], "armed")

\* ------------------------------------------------------------------------
\* send_receive calls
\* ------------------------------------------------------------------------
\* the polling loop of the call that reserved id ends in this step
LoopEnds(id) ==
    /\ Has(waiters, id) /\ waiters[id].pc = "poll"
    /\ waiters'[id].pc # "poll"

\* the call that reserved id has returned with its frame or with a logged timeout
Returned(id) ==
    IF Has(waiters, id) THEN waiters[id].pc \in {"claimed", "timeout_logged"} ELSE FALSE

\* the call that reserved id is waiting for drain
Draining(id) == IF Has(waiters, id) THEN waiters[id].pc = "drain" ELSE FALSE

\* the call that reserved id is in its polling loop, and its window ends
\* within the horizon of the clock
Polling(id) ==
    IF Has(waiters, id)
    THEN waiters[id].pc = "poll" /\ waiters[id].start_time + timeout_time <= MaxWireTime
    ELSE FALSE

\* C32: every call that reserved a send_id gets past drain and leaves its
\* polling loop having claimed its frame or logged a timeout; a call that claims
\* its frame does so inside the 1 s window and invokes update_state exactly
\* once; a call that ends without a frame logs the timeout warning, invokes
\* no update_state and leaves the board state as it was; and while the
\* transport is not open no call reserves a send_id.
C32_SendReceiveTerminates ==
    /\ \A id \in 0..(MaxSend - 1) : Draining(id) ~> ~Draining(id)
    /\ \A id \in 0..(MaxSend - 1) : Polling(id) ~> Returned(id)
    /\ [][ \A id \in DOMAIN waiters :
              LoopEnds(id) =>
                  IF waiters'[id].pc = "claimed"
                  THEN /\ now - waiters[id].start_time < timeout_time
                       /\ Len(applied') = Len(applied) + 1
                       /\ applied'[Len(applied')].waiter = id
                       /\ lastOp'.name = "update_state"
                  ELSE /\ waiters'[id].pc = "timeout_logged"
                       /\ applied' = applied
                       /\ state' = state ]_vars
    /\ [][ link[ManagedBoard].manager # "open" =>
              (send_id' = send_id /\ DOMAIN waiters' = DOMAIN waiters) ]_vars

\* ------------------------------------------------------------------------
\* EngineAbort ticks
\* ------------------------------------------------------------------------
\* the safing snapshot of the stored timeline
AbortSnapshot == sequencejson["start_end_desiredstate"]

\* C33: a main-loop tick in EngineAbort merges the safing snapshot into the
\* desired state of every board the snapshot names, leaves the other boards
\* alone and keeps the machine in EngineAbort; the machine leaves EngineAbort
\* only in a granted transition_to requested by a caller.
C33_AbortTicksMergeAndStay ==
    /\ [][ (sm_last'.op = "main_loop" /\ cycle' # cycle /\ sm_state = "EngineAbortState") =>
              /\ sm_state' = "EngineAbortState"
              /\ \A b \in BoardNames :
                    desired_state'[b] =
                        IF Has(AbortSnapshot, b)
                        THEN UpdatedDesiredState(board_config[b], state[b], desired_state[b],
                                                 AbortSnapshot[b])
                        ELSE desired_state[b] ]_vars
    /\ [][ (sm_state = "EngineAbortState" /\ sm_state' # "EngineAbortState") =>
              /\ sm_last'.op = "transition_to"
              /\ sm_last'.reply = <<"Transitioned to", sm_state'>> ]_vars

\* the machine is still in EngineAbort after ticks past the cool-down, and
\* the last tick has merged the snapshot's servo entry into the desired state
C33_Witness ==
    /\ sm_state = "EngineAbortState"
    /\ sm_last.op = "main_loop"
    /\ cycle >= 2
    /\ now - statechange_time > AbortCooldown
    /\ lastOp.name = "update_desired_state"
    /\ state["ActuatorBoard"]["servos"]["main"]["armed"] = TRUE
    /\ \A f \in DOMAIN AbortSnapshot["ActuatorBoard"]["servos"]["main"] :
          desired_state["ActuatorBoard"]["servos"]["main"][f] =
              AbortSnapshot["ActuatorBoard"]["servos"]["main"][f]

\* ------------------------------------------------------------------------
\* Lookups at the ends of the timeline
\* ------------------------------------------------------------------------
\* the last call was a lookup with T at the time of the last keyframe, whose
\* servo has ramp_to_next set
LookedAtRampingLast ==
    /\ hf_call.op = "lookup"
    /\ LookedT = KeyTimeAt(LastKey)
    /\ Has(ServoAt(LastKey), "ramp_to_next") /\ ServoAt(LastKey)["ramp_to_next"] = TRUE

\* C34: a lookup whose T is at the last keyframe, when the servo of that
\* keyframe has ramp_to_next set, logs the critical error, raises nothing and
\* returns the angle of the last keyframe for that servo.
C34_RampOffEndKeepsBase ==
    LookedAtRampingLast =>
        /\ hf_call.raises = "none"
        /\ hf_call.critical
        /\ hf_call.value["ActuatorBoard"]["servos"]["main"]["angle"] = ServoAt(LastKey)["angle"]

\* ------------------------------------------------------------------------
\* Frames of the command schedulers
\* ------------------------------------------------------------------------
\* a frame without the entries the scheduler and the manager add
FrameBody(frame) == [k \in DOMAIN frame \ {"timestamp", "send_id"} |-> frame[k]]

\* C35: every frame a scheduler sends to an actuator board carries the
\* board's desired_state as it stands at that tick, whatever
\* update_desired_state and disarm_all did before it; the frame sent to a
\* board that is not an actuator names every configured item with its channel.
C35_FramesCarryCurrentDesiredState ==
    [][ \A b \in BoardNames :
          (lastOp'.name = "send_receive" /\ lastOp'.board = b /\ link'[b].sent = link[b].sent + 1) =>
              IF is_actuator(board_config[b])
              THEN FrameBody(lastOp'.arg) = desired_state[b]
              ELSE \A hw \in HardwareTypes \cap DOMAIN board_config[b] :
                     /\ Has(lastOp'.arg, hw)
                     /\ \A it \in DOMAIN board_config[b][hw] :
                           /\ Has(lastOp'.arg[hw], it)
                           /\ lastOp'.arg[hw][it]["channel"] = board_config[b][hw][it]["channel"] ]_vars

\* the actuator board's second or later frame, sent after its desired_state
\* has been changed
C35_Witness ==
    /\ lastOp.name = "send_receive"
    /\ lastOp.board = "ActuatorBoard"
    /\ link["ActuatorBoard"].sent >= 2
    /\ desired_state["ActuatorBoard"] # InitDesiredState(board_config["ActuatorBoard"])
    /\ FrameBody(lastOp.arg) = desired_state["ActuatorBoard"]

\* ------------------------------------------------------------------------
\* The cool-down of the operator's return to idle (proptestbackend.py)
\* ------------------------------------------------------------------------
\* C36: a "return to idle" command is never granted less than 2 s after the
\* "abort engine" command that put the machine into ENGINEABORT, whether or
\* not the main loop has run between the two.
C36_ReturnWaitsForCooldown ==
    [][ (sm_last'.op = "return to idle" /\ sm_state = "ENGINEABORT" /\ sm_state' = "IDLE") =>
            now - entered_time >= ReturnCooldown ]_vars

\* ------------------------------------------------------------------------
\* The completion tick of HotfireState
\* ------------------------------------------------------------------------
\* the step is a main-loop tick in Hotfire whose loop hook finds the hotfire
\* complete
CompletionTick ==
    /\ sm_last'.op = "main_loop"
    /\ sm_state = "HotfireState"
    /\ now >= next_wake
    /\ is_hotfire_complete(sequencejson, now - statechange_time)

\* C37: the transition to Idle that HotfireState.loop requests at completion
\* is never denied by HotfireState.can_transition_to, also when the gate reads
\* the clock later than the loop did, and the desired state merged into the
\* boards in that tick is the safing snapshot.
C37_CompletionExitsOnSafing ==
    /\ [](\A t1 \in 0..MaxTime : \A t2 \in t1..MaxTime :
            is_hotfire_complete(sequencejson, t1) =>
                HotfireState_can_transition_to("IdleState", sequencejson, t2)[1])
    /\ [][ CompletionTick =>
             /\ sm_state' = "IdleState"
             /\ sm_last'.reply = <<"Transitioned to", "IdleState">>
             /\ lastOp'.name = "update_desired_state"
             /\ lastOp'.arg = sequencejson["start_end_desiredstate"][lastOp'.board]
             /\ desired_state' = PushedDesiredStates(sequencejson["start_end_desiredstate"]) ]_vars

\* the tick that completed the hotfire has left the machine in Idle with the
\* safing snapshot as the last desired state pushed
C37_Witness ==
    /\ sm_last.op = "main_loop"
    /\ sm_last.hooks # <<>>
    /\ sm_last.hooks[1] = <<"teardown", "HotfireState">>
    /\ sm_state = "IdleState"
    /\ lastOp.name = "update_desired_state"
    /\ lastOp.arg = sequencejson["start_end_desiredstate"]["ActuatorBoard"]

\* ------------------------------------------------------------------------
\* Locks of a transport
\* ------------------------------------------------------------------------
\* task t is at the "async with" of lock l
Requests(t, l) ==
    \/ l = "buffer_lock" /\ task_pc[t] = "acquire_buffer_lock"
    \/ l = "cleanup_lock" /\ task_pc[t] = "acquire_cleanup_lock"
    \/ l = "send_id_lock" /\ task_pc[t] = "acquire_send_id_lock"

HeldBy(t) == { l \in LockNames : lock[l] = t }

\* C38: the reader, the cleanup task and the concurrent send_receive calls of
\* one transport never deadlock on buffer_lock, cleanup_lock and
\* send_id_lock: a task that requests a lock eventually holds it; the only
\* task that holds two locks is the cleanup task, with cleanup_lock and
\* buffer_lock.
C38_LocksAlwaysGranted ==
    /\ \A t \in LockTasks : \A l \in LockNames :
          Requests(t, l) ~> (lock[l] = t /\ ~Requests(t, l))
    /\ [](\A t \in LockTasks :
            \/ Cardinality(HeldBy(t)) <= 1
            \/ t = "_readbuffer_cleanloop" /\ HeldBy(t) = {"cleanup_lock", "buffer_lock"})
    /\ [](\A t \in LockTasks : task_pc[t] = "delete" => lock["cleanup_lock"] = t)

\* the cleanup task holds cleanup_lock and buffer_lock while two calls are
\* in their polling loop
C38_Witness ==
    /\ HeldBy("_readbuffer_cleanloop") = {"cleanup_lock", "buffer_lock"}
    /\ task_pc["send_receive_1"] = "poll_sleep"
    /\ task_pc["send_receive_2"] = "poll_sleep"

\* ------------------------------------------------------------------------
\* The send_id of a frame and the call that wrote it
\* ------------------------------------------------------------------------
\* C39: every tick passes the one command dictionary to a new send_receive
\* task; each frame written carries the send_id that the call writing it has
\* reserved, whatever the other calls in flight do, and no two frames carry
\* the same send_id.
C39_FrameCarriesOwnSendId ==
    /\ [][ \A caller \in Callers :
             (task_pc[caller] = "dumps" /\ task_pc'[caller] = "drain") =>
                 /\ Len(wire_out') = Len(wire_out) + 1
                 /\ wire_out'[Len(wire_out')]["send_id"] = Reserved(caller) ]_vars
    /\ [](\A i \in DOMAIN wire_out : \A j \in DOMAIN wire_out :
            i # j => wire_out[i]["send_id"] # wire_out[j]["send_id"])

\* two calls are in flight, each has written its frame with its own send_id
C39_Witness ==
    /\ Len(wire_out) = 2
    /\ wire_out[1]["send_id"] # wire_out[2]["send_id"]
    /\ \E c1 \in Callers : \E c2 \in Callers \ {c1} :
          /\ task_pc[c1] = "drain"
          /\ task_pc[c2] = "drain"
          /\ \A i \in DOMAIN wire_out :
                waiters[wire_out[i]["send_id"]].task \in {c1, c2}

\* ------------------------------------------------------------------------
\* Totality of the hotfire lookup
\* ------------------------------------------------------------------------
\* C40: for every timeline with at least one keyframe, a single keyframe
\* included, and every t, T at the first or the last keyframe time included,
\* get_hotfire_desiredstate raises nothing and returns a snapshot that names
\* the boards of the timeline.
C40_LookupIsTotal ==
    hf_call.op = "lookup" =>
        /\ hf_call.raises = "none"
        /\ DOMAIN hf_call.value = {"ActuatorBoard"}

====
